---- MODULE Spec2Model ----
(***************************************************************************)
(* Model of the client-side conflux message handler                        *)
(* (tor-proto: tunnel/reactor/conflux/msghandler/client.rs) and of the     *)
(* reactor's view of the hops of a circuit                                 *)
(* (tor-proto: tunnel/reactor/circuit/circhop.rs).                         *)
(*                                                                         *)
(* One ClientConfluxMsgHandler is modelled as a state machine: its fields  *)
(* are the variables, and every method of the handler that the owning      *)
(* reactor can call is one action.  The outcome of the last call (the      *)
(* Result and the returned Option<CircuitCmd>) is kept in the variables    *)
(* `call`, `result` and `ret`, so that properties can talk about it.       *)
(***************************************************************************)
EXTENDS Integers, Sequences, FiniteSets, TLC

(***************************************************************************)
(* Bounds of the model.                                                    *)
(***************************************************************************)
\* SystemTime readings are whole seconds 0..MaxTime.
MaxTime == 1
\* last_seq_recv (u64) is explored up to MaxSeq, last_seq_sent (u64) up to MaxSent.
MaxSeq == 3
MaxSent == 2
\* rel_seqno (u32) carried by a SWITCH cell ranges over 0..MaxRelSeqno.
MaxRelSeqno == 2
\* V1Nonce values are 1..NumNonces.
NumNonces == 2
\* HopNum values are 0..MaxHop.
MaxHop == 1

(***************************************************************************)
(* Program constants.                                                      *)
(***************************************************************************)
\* const LINK_TIMEOUT: Duration = Duration::from_secs(60)
LINK_TIMEOUT == 60
\* Duration::from_secs(u64::MAX), the fallback RTT.  TLC integers are 32
\* bits wide, so the largest TLC integer stands for u64::MAX seconds.
DURATION_SECS_U64_MAX == 2147483647

Times == 0..MaxTime
Nonces == 1..NumNonces
HopNums == 0..MaxHop

(***************************************************************************)
(* Option<T>: None is the empty sequence, Some(x) the one-element one.     *)
(***************************************************************************)
None == <<>>
Some(x) == <<x>>
IsSome(o) == Len(o) = 1
Unwrap(o) == o[1]

(***************************************************************************)
(* enum ConfluxState { Unlinked, AwaitingLink(V1Nonce), Linked }           *)
(***************************************************************************)
Unlinked == <<"Unlinked">>
AwaitingLink(n) == <<"AwaitingLink", n>>
Linked == <<"Linked">>
ConfluxState == {Unlinked, Linked} \cup {AwaitingLink(n) : n \in Nonces}

(***************************************************************************)
(* Unparsed relay messages.  A message is its command and its body; the    *)
(* body either decodes (wellformed) or not.  Only the fields the handler   *)
(* reads are kept: the nonce of a LINKED body and the seqno of a SWITCH    *)
(* body.  "DATA" stands for every command that is not a conflux command.   *)
(***************************************************************************)
Msg(c, w, n, s) == [cmd |-> c, wellformed |-> w, nonce |-> n, seqno |-> s]
NoMsg == Msg("-", TRUE, 0, 0)

UnparsedRelayMsgs ==
    {Msg("CONFLUX_LINKED", TRUE, n, 0) : n \in Nonces}
    \cup {Msg("CONFLUX_SWITCH", TRUE, 0, s) : s \in 0..MaxRelSeqno}
    \cup {Msg(c, FALSE, 0, 0) : c \in {"CONFLUX_LINKED", "CONFLUX_SWITCH"}}
    \cup {Msg(c, TRUE, 0, 0) : c \in {"CONFLUX_LINK", "CONFLUX_LINKED_ACK", "DATA"}}

VARIABLES
    state,          \* ClientConfluxMsgHandler::state
    nonce,          \* ClientConfluxMsgHandler::nonce
    join_point,     \* ClientConfluxMsgHandler::join_point
    init_rtt,       \* ClientConfluxMsgHandler::init_rtt   (Option<Duration>, seconds)
    link_sent,      \* ClientConfluxMsgHandler::link_sent  (Option<SystemTime>, seconds)
    last_seq_recv,  \* ClientConfluxMsgHandler::last_seq_recv
    last_seq_sent,  \* ClientConfluxMsgHandler::last_seq_sent
    call,           \* the last call made on the handler and its arguments
    result,         \* the Result of that call: "Ok" or the kind of the error
    ret,            \* the Option<CircuitCmd> returned by that call
    now,            \* what runtime.wallclock() read during that call, None if it was not read
    n_complete,     \* how many ConfluxHandshakeComplete commands were returned so far
    hops,           \* CircHopList::hops: the CircHops of one circuit, in path order
    maps,           \* the StreamMaps the hops point to (CircHop::map is an Arc to one)
    pass,           \* the stream returned by ready_streams_iterator, None if none is alive
    hop_call,       \* the last call made on the hop list or a hop, and what it returned
    locks,          \* the StreamMaps (places in `maps`) whose Mutex is locked
    task,           \* where the reactor's task is inside a call that locks StreamMaps
    channels,       \* MgrState: Inner::channels, the entries of the channel map
    chan_call,      \* the last call made on the MgrState, and what it returned
    next_id,        \* UniqPendingChanId::new: the static NEXT_ID
    netdir,         \* publisher Reactor: Inner::netdir (Option<Arc<NetDir>>)
    time_periods,   \* publisher Reactor: Inner::time_periods, the TimePeriodContexts
    publish_status, \* publisher Reactor: what publish_status_tx holds
    svc_status,     \* publisher Reactor: the (State, Option<Problem>) last sent on status_tx
    pub_call,       \* the last event the publisher reactor handled
    pub_now,        \* publisher Reactor: what imm.runtime.now() reads, in seconds
    ipts,           \* whether the IptSet the ipt_watcher shows has ipts (Some) or not (None)
    svc_config,     \* publisher Reactor: Inner::config, the publisher's view of the configuration
    authorized_clients, \* publisher Reactor: Inner::authorized_clients
    last_uploaded,  \* publisher Reactor: Inner::last_uploaded
    rate_lim_until, \* the Instant of PublishStatus::RateLimited, when publish_status is that
    status_rx,      \* whether publish_status_rx has a value the main loop has not taken
    reupload_timers, \* publisher Reactor: Inner::reupload_timers, the time periods of the timers
    upload_tasks,   \* the upload tasks spawned by upload_all that have not ended
    upload_call,    \* what upload_all did if the last event ran it, None if it did not
    mode,           \* VanguardMgr: Inner::mode
    vanguard_sets,  \* VanguardMgr: Inner::vanguard_sets
    storage,        \* VanguardMgr::storage: what the state file holds, None if there is none
    vg_netdir,      \* the NetDir the VanguardMgr's NetDirProvider has, None if it has none
    config_rx,      \* VanguardMgr: whether config_tx holds a value the maintenance task has not seen
    vg_call         \* the last step of the VanguardMgr, and the state before it

\* The fields of the handler that a method can assign.
fields == <<state, init_rtt, link_sent, last_seq_recv, last_seq_sent>>
\* The fields fixed at construction.
config == <<nonce, join_point>>
\* The variables of the conflux handler, and those of the hops of a circuit.
handler == <<state, nonce, join_point, init_rtt, link_sent,
             last_seq_recv, last_seq_sent, call, result, ret, now, n_complete>>
circuit == <<hops, maps, pass, hop_call>>
\* The locks on the StreamMaps and the position of the task that takes them.
reactor == <<locks, task>>
\* The variables of the channel manager's state (tor-chanmgr).
chanmgr == <<channels, chan_call, next_id>>
\* The variables of the descriptor publisher's reactor (tor-hsservice).
uploader == <<pub_now, ipts, svc_config, authorized_clients, last_uploaded,
              rate_lim_until, status_rx, upload_tasks, upload_call>>
publisher == <<netdir, time_periods, publish_status, svc_status, pub_call,
               reupload_timers, uploader>>
\* The variables of the vanguard manager (tor-guardmgr).
vanguardmgr == <<mode, vanguard_sets, storage, vg_netdir, config_rx, vg_call>>
\* The variables of tor-proto, and those of the other crates.
tor_proto == <<handler, circuit, reactor>>
crates == <<chanmgr, publisher, vanguardmgr>>
vars == <<tor_proto, crates>>

\* The task is not inside a call; no Mutex is locked when a circuit is made.
Idle == [op |-> "idle"]
ReactorInit == locks = {} /\ task = Idle

\* The objects of the other crates, not in use.
ChanMgrIdle == channels = {} /\ chan_call = [op |-> "-"] /\ next_id = 0
\* Reactor::new: no upload yet, no timer, no task; restricted discovery is off.
UploaderIdle ==
    /\ pub_now = 0
    /\ ipts = FALSE
    /\ svc_config = "open"
    /\ authorized_clients = None
    /\ last_uploaded = None
    /\ rate_lim_until = 0
    /\ status_rx = TRUE
    /\ upload_tasks = {}
    /\ upload_call = None
PublisherIdle ==
    /\ netdir = None
    /\ time_periods = <<>>
    /\ publish_status = "AwaitingIpts"
    /\ svc_status = None
    /\ pub_call = [op |-> "-"]
    /\ reupload_timers = {}
    /\ UploaderIdle
VanguardMgrIdle ==
    /\ mode = "Disabled"
    /\ vanguard_sets = [l2_vanguards |-> {}, l3_vanguards |-> {}]
    /\ storage = None
    /\ vg_netdir = None
    /\ config_rx = FALSE
    /\ vg_call = [op |-> "-"]
CratesIdle == ChanMgrIdle /\ PublisherIdle /\ VanguardMgrIdle

Call(op, msg, hop, ts) == [op |-> op, msg |-> msg, hop |-> hop, ts |-> ts]

\* Every error path of the handler: return Err(kind), with no field assigned
\* (and, on all of them, before the wall clock is read).
Err(kind) ==
    /\ result' = kind
    /\ ret' = None
    /\ now' = None
    /\ UNCHANGED fields

(***************************************************************************)
(* The CircuitCmd returned by a successful LINKED: the LINKED_ACK, with no *)
(* stream id, in a SendRelayCell { hop, early: false, cell }.              *)
(***************************************************************************)
SendRelayCell(hop, early, cmd) == [hop |-> hop, early |-> early, msg |-> cmd, streamid |-> None]
CircuitCmd(kind, cell) == [kind |-> kind, cell |-> cell]
IsHandshakeComplete(r) == IsSome(r) /\ Unwrap(r).kind = "ConfluxHandshakeComplete"

(***************************************************************************)
(* UnparsedRelayMsg::decode::<ConfluxLinked>() and ::<ConfluxSwitch>():    *)
(* the parsed field, or None for a body that does not parse.               *)
(***************************************************************************)
DecodeConfluxLinked(msg) == IF msg.wellformed THEN Some(msg.nonce) ELSE None
DecodeConfluxSwitch(msg) == IF msg.wellformed THEN Some(msg.seqno) ELSE None

\* SystemTime::duration_since(earlier): Err (None) when earlier is later than self.
duration_since(later, earlier) == IF later >= earlier THEN Some(later - earlier) ELSE None

\* unsupported_client_cell!(msg, hop): a protocol error naming the cell.
unsupported_client_cell(msg, hop) == "CircProto"

(***************************************************************************)
(* The methods of the handler.                                             *)
(***************************************************************************)
\* Faulty variant: the hop check is left out.
validate_source_hop_unchecked(msg, hop) ==
    "Ok"

validate_source_hop(msg, hop) ==
    IF hop # join_point THEN "CircProto" ELSE "Ok"

\* Faulty variant: the LINK cell is counted as a sent cell.
note_link_sent_counts_link(ts) ==
    IF state = Unlinked
    THEN /\ state' = AwaitingLink(nonce)
         /\ link_sent' = Some(ts)
         /\ last_seq_sent' = last_seq_sent + 1
         /\ result' = "Ok"
         /\ ret' = None
         /\ now' = None
         /\ UNCHANGED <<init_rtt, last_seq_recv>>
    ELSE Err("Bug")

\* Faulty variant: the state is not examined, every call restarts the handshake.
note_link_sent_any_state(ts) ==
    /\ state' = AwaitingLink(nonce)
    /\ link_sent' = Some(ts)
    /\ result' = "Ok"
    /\ ret' = None
    /\ now' = None
    /\ UNCHANGED <<init_rtt, last_seq_recv, last_seq_sent>>

\* Faulty variant: link_sent is recorded before the state is examined.
note_link_sent_records_first(ts) ==
    IF state = Unlinked
    THEN /\ state' = AwaitingLink(nonce)
         /\ link_sent' = Some(ts)
         /\ result' = "Ok"
         /\ ret' = None
         /\ now' = None
         /\ UNCHANGED <<init_rtt, last_seq_recv, last_seq_sent>>
    ELSE /\ link_sent' = Some(ts)
         /\ result' = "Bug"
         /\ ret' = None
         /\ now' = None
         /\ UNCHANGED <<state, init_rtt, last_seq_recv, last_seq_sent>>

\* Faulty variant: the state advances but the time of the LINK is not recorded.
note_link_sent_forgets_time(ts) ==
    IF state = Unlinked
    THEN /\ state' = AwaitingLink(nonce)
         /\ result' = "Ok"
         /\ ret' = None
         /\ now' = None
         /\ UNCHANGED <<link_sent, init_rtt, last_seq_recv, last_seq_sent>>
    ELSE Err("Bug")

note_link_sent(ts) ==
    IF state = Unlinked
    THEN /\ state' = AwaitingLink(nonce)
         /\ link_sent' = Some(ts)
         /\ result' = "Ok"
         /\ ret' = None
         /\ now' = None
         /\ UNCHANGED <<init_rtt, last_seq_recv, last_seq_sent>>
    ELSE Err("Bug")

\* Faulty variant: the deadline is the send time itself, LINK_TIMEOUT is not added.
handshake_timeout_no_timeout ==
    IF IsSome(link_sent) THEN Some(Unwrap(link_sent)) ELSE None

handshake_timeout ==
    IF IsSome(link_sent) THEN Some(Unwrap(link_sent) + LINK_TIMEOUT) ELSE None

inc_last_seq_recv ==
    /\ last_seq_recv' = last_seq_recv + 1
    /\ UNCHANGED <<state, init_rtt, link_sent, last_seq_sent>>

\* Faulty variant: the wrong counter is incremented.
inc_last_seq_sent_wrong_counter ==
    /\ last_seq_recv' = last_seq_recv + 1
    /\ UNCHANGED <<state, init_rtt, link_sent, last_seq_sent>>

inc_last_seq_sent ==
    /\ last_seq_sent' = last_seq_sent + 1
    /\ UNCHANGED <<state, init_rtt, link_sent, last_seq_recv>>

\* Faulty variant: the unsupported cell is dropped silently.
handle_conflux_link_ignored(msg, hop) ==
    /\ result' = "Ok"
    /\ ret' = None
    /\ now' = None
    /\ UNCHANGED fields

handle_conflux_link(msg, hop) ==
    Err(unsupported_client_cell(msg, hop))

\* Faulty variant: the nonce of the LINKED cell is not compared with the expected one.
handle_conflux_linked_any_nonce(msg, hop) ==
    IF link_sent = None THEN Err("CircProto")
    ELSE IF state = Unlinked THEN Err("CircProto")
    ELSE IF state = Linked THEN Err("CircProto")
    ELSE IF DecodeConfluxLinked(msg) = None THEN Err("BytesErr")
    ELSE /\ state' = Linked
         /\ \E wallclock \in Times :
                /\ now' = Some(wallclock)
                /\ init_rtt' = IF IsSome(duration_since(wallclock, Unwrap(link_sent)))
                               THEN duration_since(wallclock, Unwrap(link_sent))
                               ELSE Some(DURATION_SECS_U64_MAX)
         /\ result' = "Ok"
         /\ ret' = Some(CircuitCmd("ConfluxHandshakeComplete",
                                   SendRelayCell(hop, FALSE, "CONFLUX_LINKED_ACK")))
         /\ UNCHANGED <<link_sent, last_seq_recv, last_seq_sent>>

\* Faulty variant: the LINKED_ACK is returned as an ordinary Send.
handle_conflux_linked_plain_send(msg, hop) ==
    IF link_sent = None THEN Err("CircProto")
    ELSE IF state = Unlinked THEN Err("CircProto")
    ELSE IF state = Linked THEN Err("CircProto")
    ELSE IF DecodeConfluxLinked(msg) = None THEN Err("BytesErr")
    ELSE IF state[2] # Unwrap(DecodeConfluxLinked(msg)) THEN Err("CircProto")
    ELSE /\ state' = Linked
         /\ \E wallclock \in Times :
                /\ now' = Some(wallclock)
                /\ init_rtt' = IF IsSome(duration_since(wallclock, Unwrap(link_sent)))
                               THEN duration_since(wallclock, Unwrap(link_sent))
                               ELSE Some(DURATION_SECS_U64_MAX)
         /\ result' = "Ok"
         /\ ret' = Some(CircuitCmd("Send", SendRelayCell(hop, FALSE, "CONFLUX_LINKED_ACK")))
         /\ UNCHANGED <<link_sent, last_seq_recv, last_seq_sent>>

\* Faulty variant: the error of duration_since is propagated instead of replaced by
\* the fallback, after the state was already set to Linked.
handle_conflux_linked_no_fallback(msg, hop) ==
    IF link_sent = None THEN Err("CircProto")
    ELSE IF state = Unlinked THEN Err("CircProto")
    ELSE IF state = Linked THEN Err("CircProto")
    ELSE IF DecodeConfluxLinked(msg) = None THEN Err("BytesErr")
    ELSE IF state[2] # Unwrap(DecodeConfluxLinked(msg)) THEN Err("CircProto")
    ELSE /\ state' = Linked
         /\ \E wallclock \in Times :
                /\ now' = Some(wallclock)
                /\ IF IsSome(duration_since(wallclock, Unwrap(link_sent)))
                   THEN /\ init_rtt' = duration_since(wallclock, Unwrap(link_sent))
                        /\ result' = "Ok"
                        /\ ret' = Some(CircuitCmd("ConfluxHandshakeComplete",
                                           SendRelayCell(hop, FALSE, "CONFLUX_LINKED_ACK")))
                   ELSE /\ init_rtt' = init_rtt
                        /\ result' = "Bug"
                        /\ ret' = None
         /\ UNCHANGED <<link_sent, last_seq_recv, last_seq_sent>>

handle_conflux_linked(msg, hop) ==
    IF link_sent = None THEN Err("CircProto")
    ELSE IF state = Unlinked THEN Err("CircProto")
    ELSE IF state = Linked THEN Err("CircProto")
    ELSE IF DecodeConfluxLinked(msg) = None THEN Err("BytesErr")
    ELSE IF state[2] # Unwrap(DecodeConfluxLinked(msg)) THEN Err("CircProto")
    ELSE /\ state' = Linked
         /\ \E wallclock \in Times :
                /\ now' = Some(wallclock)
                /\ init_rtt' = IF IsSome(duration_since(wallclock, Unwrap(link_sent)))
                               THEN duration_since(wallclock, Unwrap(link_sent))
                               ELSE Some(DURATION_SECS_U64_MAX)
         /\ result' = "Ok"
         /\ ret' = Some(CircuitCmd("ConfluxHandshakeComplete",
                                   SendRelayCell(hop, FALSE, "CONFLUX_LINKED_ACK")))
         /\ UNCHANGED <<link_sent, last_seq_recv, last_seq_sent>>

handle_conflux_linked_ack(msg, hop) ==
    Err(unsupported_client_cell(msg, hop))

validate_switch_seqno(rel_seqno) ==
    IF rel_seqno = 0 THEN "CircProto" ELSE "Ok"

\* Faulty variant: the SWITCH cell itself is counted too.
handle_conflux_switch_counts_itself(msg, hop) ==
    IF state # Linked THEN Err("CircProto")
    ELSE IF DecodeConfluxSwitch(msg) = None THEN Err("BytesErr")
    ELSE IF validate_switch_seqno(Unwrap(DecodeConfluxSwitch(msg))) # "Ok"
         THEN Err(validate_switch_seqno(Unwrap(DecodeConfluxSwitch(msg))))
    ELSE /\ last_seq_recv' = last_seq_recv + Unwrap(DecodeConfluxSwitch(msg)) + 1
         /\ result' = "Ok"
         /\ ret' = None
         /\ now' = None
         /\ UNCHANGED <<state, init_rtt, link_sent, last_seq_sent>>

handle_conflux_switch(msg, hop) ==
    IF state # Linked THEN Err("CircProto")
    ELSE IF DecodeConfluxSwitch(msg) = None THEN Err("BytesErr")
    ELSE IF validate_switch_seqno(Unwrap(DecodeConfluxSwitch(msg))) # "Ok"
         THEN Err(validate_switch_seqno(Unwrap(DecodeConfluxSwitch(msg))))
    ELSE /\ last_seq_recv' = last_seq_recv + Unwrap(DecodeConfluxSwitch(msg))
         /\ result' = "Ok"
         /\ ret' = None
         /\ now' = None
         /\ UNCHANGED <<state, init_rtt, link_sent, last_seq_sent>>

\* Faulty variant: a cell that is not a conflux cell is dropped silently.
handle_msg_ignores_others(msg, hop) ==
    CASE msg.cmd = "CONFLUX_LINK" -> handle_conflux_link(msg, hop)
      [] msg.cmd = "CONFLUX_LINKED" -> handle_conflux_linked(msg, hop)
      [] msg.cmd = "CONFLUX_LINKED_ACK" -> handle_conflux_linked_ack(msg, hop)
      [] msg.cmd = "CONFLUX_SWITCH" -> handle_conflux_switch(msg, hop)
      [] OTHER -> /\ result' = "Ok"
                  /\ ret' = None
                  /\ now' = None
                  /\ UNCHANGED fields

handle_msg(msg, hop) ==
    CASE msg.cmd = "CONFLUX_LINK" -> handle_conflux_link(msg, hop)
      [] msg.cmd = "CONFLUX_LINKED" -> handle_conflux_linked(msg, hop)
      [] msg.cmd = "CONFLUX_LINKED_ACK" -> handle_conflux_linked_ack(msg, hop)
      [] msg.cmd = "CONFLUX_SWITCH" -> handle_conflux_switch(msg, hop)
      [] OTHER -> Err("Bug")

(***************************************************************************)
(* ClientConfluxMsgHandler::new(join_point, nonce, runtime)                *)
(***************************************************************************)
Init ==
    /\ state = Unlinked
    /\ nonce \in Nonces
    /\ join_point \in HopNums
    /\ link_sent = None
    /\ init_rtt = None
    /\ last_seq_recv = 0
    /\ last_seq_sent = 0
    /\ call = Call("new", NoMsg, join_point, 0)
    /\ result = "Ok"
    /\ ret = None
    /\ now = None
    /\ n_complete = 0
    /\ hops = <<>>
    /\ maps = <<>>
    /\ pass = None
    /\ hop_call = [op |-> "-"]
    /\ ReactorInit
    /\ CratesIdle

\* The count of ConfluxHandshakeComplete commands, kept up to 2 ("two or more").
Counted(r) ==
    IF IsHandshakeComplete(r) /\ n_complete < 2 THEN n_complete + 1 ELSE n_complete

\* The sequence counters are explored up to MaxSeq.
InBounds(msg) ==
    msg.cmd = "CONFLUX_SWITCH" => last_seq_recv + msg.seqno <= MaxSeq

(***************************************************************************)
(* The actions: one per call the owner of the handler can make.            *)
(***************************************************************************)
NoteLinkSent ==
    \E ts \in Times :
        /\ call' = Call("note_link_sent", NoMsg, 0, ts)
        /\ note_link_sent(ts)
        /\ UNCHANGED <<config, n_complete, circuit, reactor, crates>>

HandleMsg ==
    \E msg \in UnparsedRelayMsgs, hop \in HopNums :
        /\ InBounds(msg)
        /\ call' = Call("handle_msg", msg, hop, 0)
        /\ handle_msg(msg, hop)
        /\ n_complete' = Counted(ret')
        /\ UNCHANGED <<config, circuit, reactor, crates>>

\* validate_source_hop reads the command of the message and nothing else of it:
\* the call is recorded with the command alone.
ValidateSourceHop ==
    \E msg \in UnparsedRelayMsgs, hop \in HopNums :
        /\ call' = Call("validate_source_hop", Msg(msg.cmd, TRUE, 0, 0), hop, 0)
        /\ result' = validate_source_hop(msg, hop)
        /\ ret' = None
        /\ now' = None
        /\ UNCHANGED <<fields, config, n_complete, circuit, reactor, crates>>

IncLastSeqRecv ==
    /\ last_seq_recv < MaxSeq
    /\ call' = Call("inc_last_seq_recv", NoMsg, 0, 0)
    /\ inc_last_seq_recv
    /\ result' = "Ok"
    /\ ret' = None
    /\ now' = None
    /\ UNCHANGED <<config, n_complete, circuit, reactor, crates>>

IncLastSeqSent ==
    /\ last_seq_sent < MaxSent
    /\ call' = Call("inc_last_seq_sent", NoMsg, 0, 0)
    /\ inc_last_seq_sent
    /\ result' = "Ok"
    /\ ret' = None
    /\ now' = None
    /\ UNCHANGED <<config, n_complete, circuit, reactor, crates>>

Next ==
    \/ NoteLinkSent
    \/ HandleMsg
    \/ ValidateSourceHop
    \/ IncLastSeqRecv
    \/ IncLastSeqSent

Spec == Init /\ [][Next]_vars

TypeOK ==
    /\ state \in ConfluxState
    /\ nonce \in Nonces
    /\ join_point \in HopNums
    /\ link_sent \in {None} \cup {Some(t) : t \in Times}
    /\ init_rtt \in {None} \cup {Some(d) : d \in 0..MaxTime \cup {DURATION_SECS_U64_MAX}}
    /\ now \in {None} \cup {Some(t) : t \in Times}
    /\ last_seq_recv \in 0..MaxSeq
    /\ last_seq_sent \in 0..MaxSent
    /\ result \in {"Ok", "CircProto", "BytesErr", "Bug"}
    /\ n_complete \in 0..2

(***************************************************************************)
(* Properties.  A step is recognised by the call it records: call' is the  *)
(* call made in the step, the unprimed fields are the handler before it.   *)
(***************************************************************************)
\* The step is handle_msg on a cell with command cmd.
Handles(cmd) == call'.op = "handle_msg" /\ call'.msg.cmd = cmd
\* The state was left by handle_msg on a cell with command cmd.
Handled(cmd) == call.op = "handle_msg" /\ call.msg.cmd = cmd
\* The handler awaits a LINKED, and msg is a LINKED that parses and carries the awaited nonce.
Awaited(msg) == state[1] = "AwaitingLink" /\ msg.wellformed /\ state[2] = msg.nonce

\* C1: handle_conflux_linked succeeds if and only if the state is
\* AwaitingLink(nonce) and the LINKED cell carries that nonce; otherwise it
\* returns an error (a protocol error when the state is Unlinked or Linked or
\* the nonce differs, a decoding error when the body does not parse) and the
\* state after the call is the state before it.
C1_LinkedIffAwaitedNonce ==
    [][Handles("CONFLUX_LINKED") =>
        /\ (result' = "Ok") <=> Awaited(call'.msg)
        /\ (~Awaited(call'.msg)) =>
              /\ state' = state
              /\ result' = (IF state[1] = "AwaitingLink" /\ ~call'.msg.wellformed
                            THEN "BytesErr" ELSE "CircProto")
    ]_vars

\* C1 witness: after note_link_sent, a LINKED with another nonce was refused
\* and the leg still awaits the LINKED.
C1_Witness ==
    /\ Handled("CONFLUX_LINKED")
    /\ call.msg.wellformed
    /\ state[1] = "AwaitingLink"
    /\ state[2] # call.msg.nonce
    /\ result = "CircProto"

\* The order of the states of a leg.
Rank(st) == CASE st[1] = "Unlinked" -> 0 [] st[1] = "AwaitingLink" -> 1 [] st[1] = "Linked" -> 2

\* C2: over every sequence of operations the state only advances
\* Unlinked -> AwaitingLink -> Linked: it never moves backwards, never goes
\* from Unlinked directly to Linked, and once Linked it stays Linked.
C2_StateOnlyAdvances ==
    [][ /\ Rank(state') >= Rank(state)
        /\ Rank(state') <= Rank(state) + 1
        /\ (Rank(state') = Rank(state)) => (state' = state)
        /\ (state = Linked) => (state' = Linked)
    ]_vars

\* C2 witness: a Linked leg on which a further note_link_sent was attempted.
C2_Witness ==
    /\ state = Linked
    /\ call.op = "note_link_sent"

\* C3 as claimed: a LINKED handed to handle_msg with a source hop other than
\* the join point is rejected with a protocol error.
C3_HandleMsgRejectsOtherHop ==
    (Handled("CONFLUX_LINKED") /\ call.msg.wellformed /\ call.hop # join_point) =>
        (result = "CircProto" /\ ~IsHandshakeComplete(ret))

\* C3 as amended: validate_source_hop rejects a cell from a hop other than the
\* join point with a protocol error, accepts one from the join point, and
\* leaves the handler as it was; handle_msg does not look at the source hop
\* (the caller must validate it), so a LINKED from another hop is accepted by
\* handle_msg exactly when it is awaited.
C3_ValidateSourceHopRejectsOtherHop ==
    [][ /\ (call'.op = "validate_source_hop") =>
              /\ result' = (IF call'.hop # join_point THEN "CircProto" ELSE "Ok")
              /\ UNCHANGED fields
        /\ (Handles("CONFLUX_LINKED") /\ call'.hop # join_point) =>
              ((state' = Linked /\ state # Linked) <=> Awaited(call'.msg))
    ]_vars

\* C3 witness: while the leg awaits the LINKED, validate_source_hop refused
\* a LINKED from a hop that is not the join point.
C3_Witness ==
    /\ call.op = "validate_source_hop"
    /\ call.msg.cmd = "CONFLUX_LINKED"
    /\ call.hop # join_point
    /\ state[1] = "AwaitingLink"
    /\ result = "CircProto"

\* C4: handle_conflux_switch succeeds only when the state is Linked and the
\* rel_seqno k of the cell is > 0, and then last_seq_recv grows by exactly k;
\* with k = 0 or in state Unlinked / AwaitingLink it returns a protocol error,
\* and on every error last_seq_recv and the state are unchanged.
C4_SwitchAddsRelSeqno ==
    [][Handles("CONFLUX_SWITCH") =>
        /\ (result' = "Ok") <=>
              (state = Linked /\ call'.msg.wellformed /\ call'.msg.seqno > 0)
        /\ (result' = "Ok") =>
              /\ last_seq_recv' = last_seq_recv + call'.msg.seqno
              /\ state' = state
        /\ (result' # "Ok") =>
              /\ last_seq_recv' = last_seq_recv
              /\ state' = state
        /\ (state # Linked \/ (call'.msg.wellformed /\ call'.msg.seqno = 0)) =>
              result' = "CircProto"
    ]_vars

\* C4 witness: a SWITCH with rel_seqno 2 was accepted on a Linked leg whose
\* counter was already above 0.
C4_Witness ==
    /\ Handled("CONFLUX_SWITCH")
    /\ result = "Ok"
    /\ call.msg.seqno = 2
    /\ last_seq_recv > 2
    /\ state = Linked

\* C5: a CONFLUX_LINK or CONFLUX_LINKED_ACK cell is rejected with an error in
\* every state, and the rejection changes neither the state, link_sent,
\* init_rtt nor the sequence counters.
C5_LinkAndLinkedAckRejected ==
    [][(Handles("CONFLUX_LINK") \/ Handles("CONFLUX_LINKED_ACK")) =>
        /\ result' = "CircProto"
        /\ ret' = None
        /\ UNCHANGED <<state, link_sent, init_rtt, last_seq_recv, last_seq_sent>>
    ]_vars

\* C5 witness: a LINKED_ACK was refused while the leg awaited the LINKED.
C5_Witness ==
    /\ Handled("CONFLUX_LINKED_ACK")
    /\ state[1] = "AwaitingLink"
    /\ result = "CircProto"

\* C6: note_link_sent(ts) in state Unlinked moves the leg to
\* AwaitingLink(handler nonce) and records link_sent = ts; in state
\* AwaitingLink or Linked it returns an internal-bug error and leaves the
\* state and the recorded link_sent unchanged.
C6_NoteLinkSent ==
    [][(call'.op = "note_link_sent") =>
        IF state = Unlinked
        THEN /\ result' = "Ok"
             /\ state' = AwaitingLink(nonce)
             /\ link_sent' = Some(call'.ts)
        ELSE /\ result' = "Bug"
             /\ state' = state
             /\ link_sent' = link_sent
    ]_vars

\* C6 witness: a second note_link_sent, with another timestamp, failed as a
\* bug while the leg awaited the LINKED, and the first timestamp is kept.
C6_Witness ==
    /\ call.op = "note_link_sent"
    /\ result = "Bug"
    /\ state = AwaitingLink(nonce)
    /\ link_sent # Some(call.ts)

\* C7: every successful handle_conflux_linked returns ConfluxHandshakeComplete
\* (never Send) carrying a LINKED_ACK addressed to the hop the LINKED came
\* from, in the step in which the state becomes Linked; no other call returns
\* a command, and at most one ConfluxHandshakeComplete is ever produced.
C7_HandshakeCompleteOnce ==
    [][ /\ (Handles("CONFLUX_LINKED") /\ result' = "Ok") =>
              /\ ret' = Some(CircuitCmd("ConfluxHandshakeComplete",
                                        SendRelayCell(call'.hop, FALSE, "CONFLUX_LINKED_ACK")))
              /\ state # Linked
              /\ state' = Linked
        /\ IsSome(ret') => (Handles("CONFLUX_LINKED") /\ result' = "Ok")
        /\ n_complete' <= 1
    ]_vars

\* C7 witness: the handshake completed with a LINKED_ACK for the hop of the
\* LINKED, and a later call on the Linked leg returned no further command.
C7_Witness ==
    /\ n_complete = 1
    /\ state = Linked
    /\ Handled("CONFLUX_LINKED")
    /\ result = "CircProto"
    /\ ret = None

\* C8: handshake_timeout() is None until a LINK has been sent; after
\* note_link_sent(t) succeeds it is t + 60 seconds, and it never changes
\* afterwards.
C8_HandshakeTimeoutFixed ==
    /\ handshake_timeout = None
    /\ [][ /\ (state' = Unlinked) => (handshake_timeout' = None)
           /\ (call'.op = "note_link_sent" /\ result' = "Ok") =>
                 handshake_timeout' = Some(call'.ts + 60)
           /\ (handshake_timeout # None) => (handshake_timeout' = handshake_timeout)
       ]_vars

\* C8 witness: on a Linked leg whose LINK was sent at 1, a duplicate
\* note_link_sent(0) failed and the deadline is still 61.
C8_Witness ==
    /\ handshake_timeout = Some(61)
    /\ state = Linked
    /\ call.op = "note_link_sent"
    /\ call.ts = 0
    /\ result = "Bug"

\* C9: when a valid LINKED is accepted, init_rtt is set to (wall-clock now -
\* link_sent); if the wall clock reads earlier than link_sent the handshake
\* still succeeds (state Linked, ConfluxHandshakeComplete returned) with
\* init_rtt set to the very large fallback value, without an error.
C9_InitRttMeasured ==
    [][(Handles("CONFLUX_LINKED") /\ Awaited(call'.msg)) =>
        /\ result' = "Ok"
        /\ state' = Linked
        /\ IsHandshakeComplete(ret')
        /\ IsSome(now')
        /\ init_rtt' = (IF Unwrap(now') >= Unwrap(link_sent)
                        THEN Some(Unwrap(now') - Unwrap(link_sent))
                        ELSE Some(DURATION_SECS_U64_MAX))
    ]_vars

\* C9 witness: the LINKED arrived when the wall clock read earlier than
\* link_sent; the leg is Linked and init_rtt is the fallback.
C9_Witness ==
    /\ Handled("CONFLUX_LINKED")
    /\ result = "Ok"
    /\ IsSome(now)
    /\ Unwrap(now) < Unwrap(link_sent)
    /\ state = Linked
    /\ IsHandshakeComplete(ret)
    /\ init_rtt = Some(DURATION_SECS_U64_MAX)

\* C10: each inc_last_seq_recv raises last_seq_recv by exactly 1 and each
\* inc_last_seq_sent raises last_seq_sent by exactly 1, leaving the other
\* counter unchanged; no operation ever decreases either counter.
C10_CountersStepByOne ==
    [][ /\ (call'.op = "inc_last_seq_recv") =>
              (last_seq_recv' = last_seq_recv + 1 /\ last_seq_sent' = last_seq_sent)
        /\ (call'.op = "inc_last_seq_sent") =>
              (last_seq_sent' = last_seq_sent + 1 /\ last_seq_recv' = last_seq_recv)
        /\ last_seq_recv' >= last_seq_recv
        /\ last_seq_sent' >= last_seq_sent
    ]_vars

\* C10 witness: inc_last_seq_sent brought last_seq_sent to 2 while
\* last_seq_recv stands at 1.
C10_Witness ==
    /\ call.op = "inc_last_seq_sent"
    /\ last_seq_sent = 2
    /\ last_seq_recv = 1

\* C11: handshake and control handling is excluded from sequence accounting:
\* note_link_sent and handle_msg for CONFLUX_LINK, CONFLUX_LINKED and
\* CONFLUX_LINKED_ACK, whether they succeed or fail, leave last_seq_recv and
\* last_seq_sent unchanged, and handle_msg for CONFLUX_SWITCH never changes
\* last_seq_sent.
C11_HandshakeNotCounted ==
    [][ /\ ( \/ call'.op = "note_link_sent"
             \/ Handles("CONFLUX_LINK")
             \/ Handles("CONFLUX_LINKED")
             \/ Handles("CONFLUX_LINKED_ACK") ) =>
              (last_seq_recv' = last_seq_recv /\ last_seq_sent' = last_seq_sent)
        /\ Handles("CONFLUX_SWITCH") => (last_seq_sent' = last_seq_sent)
    ]_vars

\* C11 witness: a LINKED completed the handshake on a leg whose counters both
\* stand at 1 (cells counted by the caller before the handshake ended).
C11_Witness ==
    /\ Handled("CONFLUX_LINKED")
    /\ result = "Ok"
    /\ state = Linked
    /\ last_seq_recv = 1
    /\ last_seq_sent = 1

\* The conflux commands.
ConfluxCmds == {"CONFLUX_LINK", "CONFLUX_LINKED", "CONFLUX_LINKED_ACK", "CONFLUX_SWITCH"}
\* The (state, command) pairs the client accepts cells for.
LegalPair(st, cmd) ==
    \/ st[1] = "AwaitingLink" /\ cmd = "CONFLUX_LINKED"
    \/ st = Linked /\ cmd = "CONFLUX_SWITCH"

\* C29: handle_msg returns Ok exactly for a LINKED that parses and carries
\* the awaited nonce in state AwaitingLink and for a SWITCH that parses and
\* has a non-zero rel_seqno in state Linked.  Every other call returns an
\* error and no command, and leaves the fields of the handler as they were;
\* for every other (state, command) pair the error is a protocol error if
\* the command is a conflux command and an internal error if it is not.
C29_NeverSilentlyIgnored ==
    [][call'.op = "handle_msg" =>
        LET msg == call'.msg IN
        /\ result' = "Ok" <=>
              \/ msg.cmd = "CONFLUX_LINKED" /\ Awaited(msg)
              \/ /\ msg.cmd = "CONFLUX_SWITCH"
                 /\ state = Linked
                 /\ msg.wellformed
                 /\ msg.seqno # 0
        /\ result' # "Ok" =>
              /\ result' \in {"CircProto", "BytesErr", "Bug"}
              /\ ret' = None
              /\ UNCHANGED <<state, link_sent, init_rtt, last_seq_recv, last_seq_sent>>
        /\ ~LegalPair(state, msg.cmd) =>
              result' = IF msg.cmd \in ConfluxCmds THEN "CircProto" ELSE "Bug"
    ]_vars

\* C29 witness: a cell that is not a conflux cell reached the handler of a
\* linked leg and was refused with an internal error.
C29_Witness ==
    /\ Handled("DATA")
    /\ state = Linked
    /\ result = "Bug"
    /\ ret = None

\* C35: in every reachable state of the handler, link_sent is set if and only
\* if the state is not Unlinked, init_rtt is set if and only if the state is
\* Linked, and the nonce held by AwaitingLink is the nonce the handler was
\* constructed with.
C35_FieldsFollowState ==
    /\ IsSome(link_sent) <=> state # Unlinked
    /\ IsSome(init_rtt) <=> state = Linked
    /\ state[1] = "AwaitingLink" => state[2] = nonce

\* C35 witness: a leg was linked by the awaited LINKED, so all three states
\* were passed through and both times are recorded.
C35_Witness ==
    /\ Handled("CONFLUX_LINKED")
    /\ result = "Ok"
    /\ state = Linked
    /\ IsSome(link_sent)
    /\ IsSome(init_rtt)

(***************************************************************************)
(* The hops of a circuit (circhop.rs).                                     *)
(*                                                                         *)
(* A CircHop is its hop number, its congestion control and a pointer to    *)
(* its StreamMap; the StreamMaps live in `maps`.  The methods of CircHop   *)
(* are operators from the hop, its map and the arguments to the outcome:   *)
(* the Result, the returned value and the map afterwards.  StreamMap,      *)
(* CongestionControl, the command checker, the half-stream handler and the *)
(* stream channels belong to other files of the crate; they are modelled   *)
(* by what circhop.rs relies on.                                           *)
(***************************************************************************)
\* StreamId values are 1..MaxStreamId (a StreamId is never zero).
MaxStreamId == 2
\* A stream's data sink (a bounded channel) holds up to SinkCap messages.
SinkCap == 2
\* OpenStreamEnt::dropped is explored up to MaxDropped.
MaxDropped == 1
\* The initial, and largest, stream send window, counted in SENDME increments.
SEND_WINDOW_INIT == 1
\* A stream's outbound channel holds up to RxCap messages.
RxCap == 1

StreamIds == 1..MaxStreamId

\* The relay messages a hop can receive on a stream: the body of a SENDME
\* either decodes or not, the other bodies are not looked at by the hop.
StreamMsg(c, w) == Msg(c, w, 0, 0)
RequestCmds == {"BEGIN", "BEGIN_DIR", "RESOLVE"}
InboundMsgs ==
    {StreamMsg("SENDME", w) : w \in BOOLEAN}
    \cup {StreamMsg(c, TRUE) : c \in {"CONNECTED", "DATA", "END"} \cup RequestCmds}

\* enum StreamSendFlowControl { WindowBased(window), XonXoffBased }
WindowBased(w) == <<"WindowBased", w>>
XonXoffBased == <<"XonXoffBased">>

\* The entries of a StreamMap: no entry, an open stream, a stream on which
\* we sent END, a stream on which the peer's END arrived first.
NoEnt == [st |-> "None"]
EndSent == [st |-> "EndSent"]
EndReceived == [st |-> "EndReceived"]
\* OpenStreamEnt of a new stream: an empty sink whose reader is alive, an
\* empty outbound channel whose writer is alive, nothing dropped.
OpenStreamEnt(flow_ctrl) ==
    [st |-> "Open", sink |-> <<>>, sink_open |-> TRUE, dropped |-> 0,
     flow_ctrl |-> flow_ctrl, rx |-> <<>>, rx_closed |-> FALSE]

\* StreamMap::new(): no entries; `last` is the stream served last by the
\* round-robin iteration (0: none yet).
StreamMap_new == [ents |-> [s \in StreamIds |-> NoEnt], last |-> 0]

\* StreamMap::get_mut(id)
get_mut(map, id) == map.ents[id]
SetEnt(map, id, ent) == [map EXCEPT !.ents[id] = ent]

\* StreamMap::n_open_streams()
StreamMap_n_open_streams(map) == Cardinality({s \in StreamIds : map.ents[s].st = "Open"})

\* StreamMap::add_ent: a new open entry under an id that has no entry, or
\* an error when every id has one.  Which free id is taken is not fixed.
add_ent(map, flow_ctrl) ==
    LET free == {s \in StreamIds : map.ents[s] = NoEnt} IN
    IF free = {}
    THEN {[result |-> "IdRangeFull", id |-> 0, map |-> map]}
    ELSE {[result |-> "Ok", id |-> s, map |-> SetEnt(map, s, OpenStreamEnt(flow_ctrl))] : s \in free}

\* StreamMap::add_ent_with_id: a new open entry under `id`, an error if
\* `id` has an entry.
StreamMap_add_ent_with_id(map, flow_ctrl, id) ==
    IF map.ents[id] = NoEnt
    THEN [result |-> "Ok", map |-> SetEnt(map, id, OpenStreamEnt(flow_ctrl))]
    ELSE [result |-> "IdUnavailable", map |-> map]

\* StreamMap::terminate: an open stream becomes EndSent and an END should
\* be sent; a stream whose END was received is removed and none should be.
terminate(map, id) ==
    CASE map.ents[id].st = "Open" ->
            [result |-> "Ok", should_send_end |-> "Send", map |-> SetEnt(map, id, EndSent)]
      [] map.ents[id].st = "EndReceived" ->
            [result |-> "Ok", should_send_end |-> "DontSend", map |-> SetEnt(map, id, NoEnt)]
      [] OTHER ->
            [result |-> "Bug", should_send_end |-> "DontSend", map |-> map]

\* StreamMap::ending_msg_received: an open stream becomes EndReceived, an
\* EndSent one is removed; anything else is a protocol error.
StreamMap_ending_msg_received(map, id) ==
    CASE map.ents[id].st = "Open" -> [result |-> "Ok", map |-> SetEnt(map, id, EndReceived)]
      [] map.ents[id].st = "EndSent" -> [result |-> "Ok", map |-> SetEnt(map, id, NoEnt)]
      [] OTHER -> [result |-> "CircProto", map |-> map]

\* AnyCmdChecker::check_msg: the commands of an established data stream.
check_msg(msg) ==
    CASE msg.cmd \in {"CONNECTED", "DATA"} -> [result |-> "Ok", status |-> "Open"]
      [] msg.cmd = "END" -> [result |-> "Ok", status |-> "Closed"]
      [] OTHER -> [result |-> "CircProto", status |-> "Open"]

\* HalfStream::handle_msg: what may still arrive after we sent END.
half_stream_handle_msg(msg) ==
    CASE msg.cmd \in {"CONNECTED", "DATA", "SENDME"} -> [result |-> "Ok", status |-> "Open"]
      [] msg.cmd = "END" -> [result |-> "Ok", status |-> "Closed"]
      [] OTHER -> [result |-> "CircProto", status |-> "Open"]

\* UnparsedRelayMsg::decode::<Sendme>(): whether the body parses.
DecodeSendme(msg) == msg.wellformed

\* OpenStreamEnt::put_for_incoming_sendme: one increment of a window that
\* has room for it; an error on a full window or without a window.
put_for_incoming_sendme(ent) ==
    IF ent.flow_ctrl[1] = "WindowBased" /\ ent.flow_ctrl[2] < SEND_WINDOW_INIT
    THEN [result |-> "Ok", ent |-> [ent EXCEPT !.flow_ctrl = WindowBased(ent.flow_ctrl[2] + 1)]]
    ELSE [result |-> "CircProto", ent |-> ent]

\* OpenStreamEnt::take_capacity_to_send: one unit of the window, if any.
OpenStreamEnt_take_capacity_to_send(ent) ==
    CASE ent.flow_ctrl[1] # "WindowBased" -> [result |-> "Ok", ent |-> ent]
      [] ent.flow_ctrl[2] > 0 ->
            [result |-> "Ok", ent |-> [ent EXCEPT !.flow_ctrl = WindowBased(ent.flow_ctrl[2] - 1)]]
      [] OTHER -> [result |-> "CircProto", ent |-> ent]

\* SinkTrySend::try_send on the stream's sink.
try_send(ent, msg) ==
    CASE ~ent.sink_open -> [result |-> "Disconnected", ent |-> ent]
      [] Len(ent.sink) >= SinkCap -> [result |-> "Full", ent |-> ent]
      [] OTHER -> [result |-> "Ok", ent |-> [ent EXCEPT !.sink = Append(ent.sink, msg)]]

\* A cell for a stream: SendRelayCell { hop, early, cell: AnyRelayMsgOuter::new(Some(id), msg) }
StreamCell(hop, early, id, msg) == [hop |-> hop, early |-> early, msg |-> msg, streamid |-> Some(id)]

\* CircHop::new(unique_id, hop_num, relay_format, settings): a hop with an
\* empty StreamMap of its own (map names the entry of `maps`).
CircHop_new(hop_num, map, can_send, uses_stream_sendme) ==
    [hop_num |-> hop_num, map |-> map,
     ccontrol |-> [can_send |-> can_send, uses_stream_sendme |-> uses_stream_sendme]]

\* The build has the `hs-service` feature: the arms of handle_msg and the
\* methods under #[cfg(feature = "hs-service")] are compiled in.
feature_hs_service == TRUE

\* The outcome of a method of CircHop: the kind of the Result, the value
\* returned inside Ok, and the StreamMap afterwards.
Outcome(res, value, map) == [result |-> res, ret |-> value, map |-> map]

\* Faulty variant: every new stream gets a send window, whatever the hop's
\* congestion control.
build_send_flow_ctrl_always_window(hop) ==
    WindowBased(SEND_WINDOW_INIT)

\* CircHop::build_send_flow_ctrl
build_send_flow_ctrl(hop) ==
    IF hop.ccontrol.uses_stream_sendme
    THEN WindowBased(SEND_WINDOW_INIT)
    ELSE XonXoffBased

\* Faulty variant: the new entry goes under any id, taken or not.
begin_stream_reuses_id(hop, map, message) ==
    { Outcome("Ok", Some(<<StreamCell(hop.hop_num, FALSE, s, message), s>>),
              SetEnt(map, s, OpenStreamEnt(build_send_flow_ctrl(hop))))
      : s \in StreamIds }

\* CircHop::begin_stream(message, sender, rx, cmd_checker): the outcomes,
\* one for each id add_ent can pick.
begin_stream(hop, map, message) ==
    LET flow_ctrl == build_send_flow_ctrl(hop) IN
    { IF r.result # "Ok"
      THEN Outcome(r.result, None, map)
      ELSE Outcome("Ok", Some(<<StreamCell(hop.hop_num, FALSE, r.id, message), r.id>>), r.map)
      : r \in add_ent(map, flow_ctrl) }

\* enum CloseStreamBehavior { SendNothing, SendEnd(End) }
SendNothing == <<"SendNothing">>
SendEnd(end_message) == <<"SendEnd", end_message>>
\* End messages, by their reason.
EndReasons == {"MISC", "DONE"}
EndMsg(reason) == <<"END", reason>>
CloseStreamBehaviors == {SendNothing} \cup {SendEnd(EndMsg(r)) : r \in EndReasons}
TerminateReasons == {"StreamTargetClosed", "ExplicitEnd"}

\* Faulty variant: the END is sent whether or not the peer's END was seen.
close_stream_always_sends(hop, map, id, message, why) ==
    LET t == terminate(map, id) IN
    IF t.result # "Ok"
    THEN Outcome(t.result, None, t.map)
    ELSE IF message[1] = "SendEnd"
         THEN Outcome("Ok", Some(StreamCell(hop.hop_num, FALSE, id, message[2])), t.map)
         ELSE Outcome("Ok", None, t.map)

\* CircHop::close_stream(id, message, why)
close_stream(hop, map, id, message, why) ==
    LET t == terminate(map, id) IN
    IF t.result # "Ok"
    THEN Outcome(t.result, None, t.map)
    ELSE IF t.should_send_end = "Send" /\ message[1] = "SendEnd"
         THEN Outcome("Ok", Some(StreamCell(hop.hop_num, FALSE, id, message[2])), t.map)
         ELSE Outcome("Ok", None, t.map)

\* CircHop::take_capacity_to_send(stream_id, msg)
take_capacity_to_send(hop, map, stream_id) ==
    LET ent == get_mut(map, stream_id) IN
    IF ent.st # "Open"
    THEN Outcome("CircProto", None, map)
    ELSE LET t == OpenStreamEnt_take_capacity_to_send(ent) IN
         Outcome(t.result, None, SetEnt(map, stream_id, t.ent))

\* CircHop::add_ent_with_id(sink, rx, stream_id, cmd_checker)
add_ent_with_id(hop, map, stream_id) ==
    LET r == StreamMap_add_ent_with_id(map, build_send_flow_ctrl(hop), stream_id) IN
    Outcome(r.result, None, r.map)

\* Faulty variant: a SENDME is not intercepted, it goes to the sink like data.
deliver_msg_to_stream_forwards_sendme(streamid, ent, cell_counts_toward_windows, msg) ==
    LET t == try_send(ent, msg) IN
    IF t.result = "Full"
    THEN [result |-> "CircProto", closes |-> FALSE, ent |-> ent]
    ELSE [result |-> "Ok", closes |-> msg.cmd = "END", ent |-> t.ent]

\* Faulty variant: a message for a full sink is let go, without an error.
deliver_msg_to_stream_ignores_full(streamid, ent, cell_counts_toward_windows, msg) ==
    IF msg.cmd = "SENDME"
    THEN IF ~DecodeSendme(msg)
         THEN [result |-> "BytesErr", closes |-> FALSE, ent |-> ent]
         ELSE LET p == put_for_incoming_sendme(ent) IN
              [result |-> p.result, closes |-> FALSE, ent |-> p.ent]
    ELSE LET c == check_msg(msg)
             t == try_send(ent, msg) IN
         IF c.result # "Ok"
         THEN [result |-> c.result, closes |-> FALSE, ent |-> ent]
         ELSE [result |-> "Ok", closes |-> c.status = "Closed", ent |-> t.ent]

\* Faulty variant: a message for a disconnected sink is counted as dropped
\* whether or not the cell counts toward the windows.
deliver_msg_to_stream_counts_every_drop(streamid, ent, cell_counts_toward_windows, msg) ==
    IF msg.cmd = "SENDME"
    THEN IF ~DecodeSendme(msg)
         THEN [result |-> "BytesErr", closes |-> FALSE, ent |-> ent]
         ELSE LET p == put_for_incoming_sendme(ent) IN
              [result |-> p.result, closes |-> FALSE, ent |-> p.ent]
    ELSE LET c == check_msg(msg)
             t == try_send(ent, msg) IN
         IF c.result # "Ok"
         THEN [result |-> c.result, closes |-> FALSE, ent |-> ent]
         ELSE IF t.result = "Full"
         THEN [result |-> "CircProto", closes |-> FALSE, ent |-> ent]
         ELSE IF t.result = "Disconnected"
         THEN [result |-> "Ok", closes |-> c.status = "Closed",
               ent |-> [ent EXCEPT !.dropped = @ + 1]]
         ELSE [result |-> "Ok", closes |-> c.status = "Closed", ent |-> t.ent]

\* Faulty variant: the window is updated before the SENDME is decoded.
deliver_msg_to_stream_updates_before_decode(streamid, ent, cell_counts_toward_windows, msg) ==
    IF msg.cmd = "SENDME"
    THEN LET p == put_for_incoming_sendme(ent) IN
         IF ~DecodeSendme(msg)
         THEN [result |-> "BytesErr", closes |-> FALSE, ent |-> p.ent]
         ELSE [result |-> p.result, closes |-> FALSE, ent |-> p.ent]
    ELSE LET c == check_msg(msg)
             message_closes_stream == c.status = "Closed"
             t == try_send(ent, msg) IN
         IF c.result # "Ok"
         THEN [result |-> c.result, closes |-> FALSE, ent |-> ent]
         ELSE IF t.result = "Full"
         THEN [result |-> "CircProto", closes |-> FALSE, ent |-> ent]
         ELSE IF t.result = "Disconnected" /\ cell_counts_toward_windows
         THEN [result |-> "Ok", closes |-> message_closes_stream,
               ent |-> [ent EXCEPT !.dropped = @ + 1]]
         ELSE [result |-> "Ok", closes |-> message_closes_stream, ent |-> t.ent]

\* CircHop::deliver_msg_to_stream(streamid, ent, cell_counts_toward_windows, msg):
\* the Result, the bool inside Ok, and the entry afterwards.
deliver_msg_to_stream(streamid, ent, cell_counts_toward_windows, msg) ==
    IF msg.cmd = "SENDME"
    THEN IF ~DecodeSendme(msg)
         THEN [result |-> "BytesErr", closes |-> FALSE, ent |-> ent]
         ELSE LET p == put_for_incoming_sendme(ent) IN
              [result |-> p.result, closes |-> FALSE, ent |-> p.ent]
    ELSE LET c == check_msg(msg)
             message_closes_stream == c.status = "Closed"
             t == try_send(ent, msg) IN
         IF c.result # "Ok"
         THEN [result |-> c.result, closes |-> FALSE, ent |-> ent]
         ELSE IF t.result = "Full"
         THEN [result |-> "CircProto", closes |-> FALSE, ent |-> ent]
         ELSE IF t.result = "Disconnected" /\ cell_counts_toward_windows
         THEN [result |-> "Ok", closes |-> message_closes_stream,
               ent |-> [ent EXCEPT !.dropped = @ + 1]]
         ELSE [result |-> "Ok", closes |-> message_closes_stream, ent |-> t.ent]

\* Faulty variant: every message for a stream without an entry is handed back.
CircHop_handle_msg_hands_back_all(hop, map, cell_counts_toward_windows, streamid, msg) ==
    LET ent == get_mut(map, streamid) IN
    IF ent.st = "None"
    THEN Outcome("Ok", Some(msg), map)
    ELSE Outcome("CircProto", None, map)

\* Faulty variant: a request on an EndSent stream is handed back, but the
\* half-open entry stays.
CircHop_handle_msg_keeps_half_open(hop, map, cell_counts_toward_windows, streamid, msg) ==
    LET ent == get_mut(map, streamid) IN
    IF ent.st \in {"EndSent", "None"} /\ msg.cmd \in RequestCmds
    THEN Outcome("Ok", Some(msg), map)
    ELSE Outcome("CircProto", None, map)

\* Faulty variant: the half-stream handler is consulted, but an entry whose
\* handler reports Closed stays in the map.
CircHop_handle_msg_never_fully_closes(hop, map, cell_counts_toward_windows, streamid, msg) ==
    LET ent == get_mut(map, streamid) IN
    IF ent.st = "EndSent" /\ msg.cmd \notin RequestCmds
    THEN Outcome(half_stream_handle_msg(msg).result, None, map)
    ELSE Outcome("CircProto", None, map)

\* CircHop::handle_msg(cell_counts_toward_windows, streamid, msg)
CircHop_handle_msg(hop, map, cell_counts_toward_windows, streamid, msg) ==
    LET ent == get_mut(map, streamid) IN
    IF ent.st = "Open"
    THEN LET d == deliver_msg_to_stream(streamid, ent, cell_counts_toward_windows, msg)
             delivered == SetEnt(map, streamid, d.ent)
             e == StreamMap_ending_msg_received(delivered, streamid) IN
         IF d.result # "Ok" THEN Outcome(d.result, None, delivered)
         ELSE IF d.closes
         THEN Outcome(e.result, None, e.map)
         ELSE Outcome("Ok", None, delivered)
    ELSE IF feature_hs_service /\ ent.st = "EndSent" /\ msg.cmd \in RequestCmds
    THEN LET e == StreamMap_ending_msg_received(map, streamid) IN
         IF e.result # "Ok" THEN Outcome(e.result, None, e.map)
         ELSE Outcome("Ok", Some(msg), e.map)
    ELSE IF ent.st = "EndSent"
    THEN LET h == half_stream_handle_msg(msg)
             e == StreamMap_ending_msg_received(map, streamid) IN
         IF h.result # "Ok" THEN Outcome(h.result, None, map)
         ELSE IF h.status = "Closed"
         THEN Outcome(e.result, None, e.map)
         ELSE Outcome("Ok", None, map)
    ELSE IF feature_hs_service /\ ent.st = "None" /\ msg.cmd \in RequestCmds
    THEN Outcome("Ok", Some(msg), map)
    ELSE Outcome("CircProto", None, map)

(***************************************************************************)
(* The calls the reactor makes on a hop.  hop_call records the call made   *)
(* in the last step: the method, the hop (its place in `hops`), the stream *)
(* id and the other arguments, the hop's StreamMap before the call, and    *)
(* what the call returned.  The StreamMap after the call is in `maps`.     *)
(***************************************************************************)
HopCall(op, h, sid, arg, o) ==
    [op |-> op, hop |-> h, sid |-> sid, arg |-> arg, was |-> maps[hops[h].map],
     result |-> o.result, ret |-> o.ret]

\* The call returns outcome o: the hop's StreamMap is left as the call left it.
Returns(op, h, sid, arg, o) ==
    /\ hop_call' = HopCall(op, h, sid, arg, o)
    /\ maps' = [maps EXCEPT ![hops[h].map] = o.map]
    /\ UNCHANGED <<handler, hops, pass, reactor, crates>>

\* A step of a stream's owner, outside the reactor.
Outside(op, h, sid, ent) ==
    /\ hop_call' = [op |-> op, hop |-> h, sid |-> sid]
    /\ maps' = [maps EXCEPT ![hops[h].map] = SetEnt(@, sid, ent)]
    /\ UNCHANGED <<handler, hops, pass, reactor, crates>>

\* OpenStreamEnt::dropped is explored up to MaxDropped.
InHopBounds(map) ==
    \A s \in StreamIds : map.ents[s].st = "Open" => map.ents[s].dropped <= MaxDropped

\* The messages that open a stream.
OpeningMsgs == {"BEGIN", "RESOLVE"}

BeginStream ==
    \E h \in DOMAIN hops :
        \E message \in OpeningMsgs :
            \E o \in begin_stream(hops[h], maps[hops[h].map], message) :
                Returns("begin_stream", h, 0, message, o)

CloseStream ==
    \E h \in DOMAIN hops :
        \E id \in StreamIds, message \in CloseStreamBehaviors, why \in TerminateReasons :
            Returns("close_stream", h, id, message,
                    close_stream(hops[h], maps[hops[h].map], id, message, why))

TakeCapacityToSend ==
    \E h \in DOMAIN hops :
        \E stream_id \in StreamIds :
            Returns("take_capacity_to_send", h, stream_id, "DATA",
                    take_capacity_to_send(hops[h], maps[hops[h].map], stream_id))

AddEntWithId ==
    \E h \in DOMAIN hops :
        \E stream_id \in StreamIds :
            /\ feature_hs_service
            /\ Returns("add_ent_with_id", h, stream_id, None,
                       add_ent_with_id(hops[h], maps[hops[h].map], stream_id))

HopHandleMsg ==
    \E h \in DOMAIN hops :
        \E cell_counts_toward_windows \in BOOLEAN, streamid \in StreamIds, msg \in InboundMsgs :
            LET o == CircHop_handle_msg(hops[h], maps[hops[h].map],
                                        cell_counts_toward_windows, streamid, msg) IN
            /\ InHopBounds(o.map)
            /\ Returns("handle_msg", h, streamid, <<cell_counts_toward_windows, msg>>, o)

\* The reader of a stream takes the next message out of the stream's sink.
StreamRecv ==
    \E h \in DOMAIN hops :
        \E sid \in StreamIds :
            LET ent == maps[hops[h].map].ents[sid] IN
            /\ ent.st = "Open" /\ ent.sink_open /\ ent.sink # <<>>
            /\ Outside("recv", h, sid, [ent EXCEPT !.sink = Tail(@)])

\* The reader of a stream goes away: the sink is disconnected, and what it
\* held is gone with it.
StreamDrop ==
    \E h \in DOMAIN hops :
        \E sid \in StreamIds :
            LET ent == maps[hops[h].map].ents[sid] IN
            /\ ent.st = "Open" /\ ent.sink_open
            /\ Outside("drop", h, sid, [ent EXCEPT !.sink_open = FALSE, !.sink = <<>>])

(***************************************************************************)
(* A circuit of one hop and the streams on it.  The conflux handler is     *)
(* left as constructed; the hop's congestion control either uses           *)
(* stream-level SENDMEs or not.                                            *)
(***************************************************************************)
HandlerInit ==
    /\ state = Unlinked
    /\ nonce = 1
    /\ join_point = 0
    /\ link_sent = None
    /\ init_rtt = None
    /\ last_seq_recv = 0
    /\ last_seq_sent = 0
    /\ call = Call("new", NoMsg, join_point, 0)
    /\ result = "Ok"
    /\ ret = None
    /\ now = None
    /\ n_complete = 0

HopInit ==
    /\ HandlerInit
    /\ hops \in {<<CircHop_new(0, 1, TRUE, u)>> : u \in BOOLEAN}
    /\ maps = <<StreamMap_new>>
    /\ pass = None
    /\ hop_call = [op |-> "-"]
    /\ ReactorInit
    /\ CratesIdle

HopNext ==
    \/ BeginStream
    \/ CloseStream
    \/ TakeCapacityToSend
    \/ AddEntWithId
    \/ HopHandleMsg
    \/ StreamRecv
    \/ StreamDrop

HopSpec == HopInit /\ [][HopNext]_vars

(***************************************************************************)
(* Scheduling: CircHopList::ready_streams_iterator.  The stream it returns *)
(* holds one future per hop that can send; each future, when polled, locks *)
(* the hop's StreamMap and processes the first ready stream, if any.       *)
(***************************************************************************)
\* The outbound messages of a stream, as far as the hop looks at them.
OutboundMsgs == {"DATA"}

\* OpenStreamEnt::can_send(msg): the flow control has room for msg.
OpenStreamEnt_can_send(ent) ==
    ent.flow_ctrl[1] # "WindowBased" \/ ent.flow_ctrl[2] > 0

\* The ready item of a stream: Some(Some(msg)) for a message that can be
\* sent, Some(None) for the end of the stream's outbound channel (the
\* writer is gone and nothing is left), None when the stream is not ready.
ReadyItem(ent) ==
    CASE ent.st # "Open" -> None
      [] ent.rx # <<>> -> IF OpenStreamEnt_can_send(ent) THEN Some(Some(Head(ent.rx))) ELSE None
      [] ent.rx_closed -> Some(None)
      [] OTHER -> None

\* The stream ids in round-robin order: those after the one served last
\* first, then the others up to it.
RoundRobin(map) ==
    [k \in 1..MaxStreamId |-> ((map.last + k - 1) % MaxStreamId) + 1]

\* StreamMap::poll_ready_streams_iter(cx): the ready streams with their
\* ready items, in round-robin order.
poll_ready_streams_iter(map) ==
    LET ready == SelectSeq(RoundRobin(map), LAMBDA s : ReadyItem(map.ents[s]) # None) IN
    [k \in 1..Len(ready) |-> <<ready[k], Unwrap(ReadyItem(map.ents[ready[k]]))>>]

\* Faulty variant: the stream keeps its place in the round-robin order.
take_ready_msg_keeps_place(map, sid) ==
    LET ent == map.ents[sid] IN
    IF ent.st = "Open" /\ ent.rx # <<>>
    THEN [msg |-> Some(Head(ent.rx)), map |-> SetEnt(map, sid, [ent EXCEPT !.rx = Tail(@)])]
    ELSE [msg |-> None, map |-> map]

\* StreamMap::take_ready_msg(sid): the stream's ready message is taken out
\* of its channel, and the stream goes to the back of the round-robin order.
take_ready_msg(map, sid) ==
    LET ent == map.ents[sid] IN
    IF ent.st = "Open" /\ ent.rx # <<>>
    THEN [msg |-> Some(Head(ent.rx)),
          map |-> [SetEnt(map, sid, [ent EXCEPT !.rx = Tail(@)]) EXCEPT !.last = sid]]
    ELSE [msg |-> None, map |-> map]

\* CloseStreamBehavior::default(): send an END with the reason MISC.
CloseStreamBehavior_default == SendEnd(EndMsg("MISC"))

\* CircuitCmd::CloseStream { hop, sid, behav, reason }
CloseStreamCmd(hop, sid, behav, reason) ==
    [kind |-> "CloseStream", hop |-> hop, sid |-> sid, behav |-> behav, reason |-> reason]

\* What a poll of a hop's future gives: Pending, Ready(Ok(cmd)) or a panic,
\* and the StreamMap it leaves.
Polled(poll, cmd, map) == [result |-> poll, ret |-> cmd, map |-> map]

\* Faulty variant: the future drains every ready message of the hop.
poll_hop_drains(hop_num, hop_map) ==
    LET ready == poll_ready_streams_iter(hop_map)
        first == take_ready_msg(hop_map, ready[1][1])
        again == poll_ready_streams_iter(first.map) IN
    IF ready = <<>> THEN Polled("Pending", None, hop_map)
    ELSE IF first.msg = None THEN Polled("Pending", None, hop_map)
    ELSE IF again # <<>> /\ again[1][2] # None
    THEN Polled("Ready", Some(CircuitCmd("Send",
                    StreamCell(hop_num, FALSE, ready[1][1], Unwrap(first.msg)))),
                take_ready_msg(first.map, again[1][1]).map)
    ELSE Polled("Ready", Some(CircuitCmd("Send",
                    StreamCell(hop_num, FALSE, ready[1][1], Unwrap(first.msg)))),
                first.map)

\* Faulty variant: the message is sent without being taken out of the stream.
poll_hop_peeks(hop_num, hop_map) ==
    LET ready == poll_ready_streams_iter(hop_map) IN
    IF ready = <<>> THEN Polled("Pending", None, hop_map)
    ELSE IF ready[1][2] = None
    THEN Polled("Ready", Some(CloseStreamCmd(hop_num, ready[1][1], CloseStreamBehavior_default,
                                             "StreamTargetClosed")), hop_map)
    ELSE Polled("Ready", Some(CircuitCmd("Send",
                    StreamCell(hop_num, FALSE, ready[1][1], Unwrap(ready[1][2])))), hop_map)

\* Faulty variant: the end of a stream is not reported, the hop stays Pending.
poll_hop_never_closes(hop_num, hop_map) ==
    LET ready == poll_ready_streams_iter(hop_map)
        taken == take_ready_msg(hop_map, ready[1][1]) IN
    IF ready = <<>> \/ ready[1][2] = None THEN Polled("Pending", None, hop_map)
    ELSE Polled("Ready", Some(CircuitCmd("Send",
                    StreamCell(hop_num, FALSE, ready[1][1], Unwrap(taken.msg)))), taken.map)

\* Faulty variant: the message is taken out of the stream and no command is
\* yielded for it.
poll_hop_loses_msg(hop_num, hop_map) ==
    LET ready == poll_ready_streams_iter(hop_map) IN
    IF ready = <<>> THEN Polled("Pending", None, hop_map)
    ELSE IF ready[1][2] = None
    THEN Polled("Ready", Some(CloseStreamCmd(hop_num, ready[1][1], CloseStreamBehavior_default,
                                             "StreamTargetClosed")), hop_map)
    ELSE Polled("Pending", None, take_ready_msg(hop_map, ready[1][1]).map)

\* The future of one hop (the closure given to poll_fn), polled once.
poll_hop(hop_num, hop_map) ==
    LET ready == poll_ready_streams_iter(hop_map) IN
    IF ready = <<>>
    THEN Polled("Pending", None, hop_map)
    ELSE LET sid == ready[1][1]
             msg == ready[1][2]
             taken == take_ready_msg(hop_map, sid) IN
         IF msg = None
         THEN Polled("Ready", Some(CloseStreamCmd(hop_num, sid, CloseStreamBehavior_default,
                                                  "StreamTargetClosed")), hop_map)
         ELSE IF taken.msg = None \/ get_mut(taken.map, sid).st # "Open"
         THEN Polled("Panic", None, taken.map)
         ELSE Polled("Ready", Some(CircuitCmd("Send",
                         StreamCell(hop_num, FALSE, sid, Unwrap(taken.msg)))), taken.map)

\* Faulty variant: every hop gets a future, whatever its congestion control says.
ready_streams_iterator_all_hops(hoplist) ==
    {[hop_num |-> i - 1, map |-> hoplist[i].map] : i \in DOMAIN hoplist}

\* Faulty variant: only the first hop that can send gets a future.
ready_streams_iterator_first_hop(hoplist) ==
    LET sendable == {j \in DOMAIN hoplist : hoplist[j].ccontrol.can_send} IN
    {[hop_num |-> i - 1, map |-> hoplist[i].map] :
        i \in {j \in sendable : \A k \in sendable : j <= k}}

\* CircHopList::ready_streams_iterator(): the futures of the stream, one
\* for each hop whose congestion control can send; each has the hop's place
\* in the list as its hop number, and the hop's StreamMap.
ready_streams_iterator(hoplist) ==
    {[hop_num |-> i - 1, map |-> hoplist[i].map] :
        i \in {j \in DOMAIN hoplist : hoplist[j].ccontrol.can_send}}

\* The messages waiting in the outbound channels of a StreamMap's streams.
RECURSIVE QueuedUpTo(_, _)
QueuedUpTo(map, n) ==
    IF n = 0 THEN 0
    ELSE QueuedUpTo(map, n - 1) + (IF map.ents[n].st = "Open" THEN Len(map.ents[n].rx) ELSE 0)
Queued(map) == QueuedUpTo(map, MaxStreamId)

\* A pass: the futures not completed yet and, for every hop number, how many
\* commands the pass has yielded for it and how many messages it has taken
\* out of the hop's streams.
Pass(futures, yielded, dequeued) ==
    [futures |-> futures, yielded |-> yielded, dequeued |-> dequeued]

\* The run of passes the last step belongs to: the StreamMaps when the run
\* began, and the hop number and stream id of every Send yielded since, in
\* order.  A run ends with any step other than creating, polling or dropping
\* the stream of a pass.
PassOps == {"ready_streams_iterator", "poll", "drop_pass"}
Streak ==
    IF hop_call.op \in PassOps THEN hop_call.streak ELSE [start |-> maps, sent |-> <<>>]
IsSend(cmd) == cmd # None /\ Unwrap(cmd).kind = "Send"

\* The reactor creates the stream of a pass; there is never more than one.
ReadyStreamsIterator ==
    /\ pass = None
    /\ pass' = Some(Pass(ready_streams_iterator(hops),
                         [i \in 0..(Len(hops) - 1) |-> 0],
                         [i \in 0..(Len(hops) - 1) |-> 0]))
    /\ hop_call' = [op |-> "ready_streams_iterator", streak |-> Streak]
    /\ UNCHANGED <<handler, hops, maps, reactor, crates>>

\* The stream is polled and polls one of its futures: a future that is
\* Ready is complete and its command is yielded, a Pending one stays.
PollHop ==
    /\ pass # None
    /\ \E f \in Unwrap(pass).futures :
        LET o == poll_hop(f.hop_num, maps[f.map])
            p == Unwrap(pass)
            taken == Queued(maps[f.map]) - Queued(o.map) IN
        /\ hop_call' = [op |-> "poll", hop |-> f.hop_num + 1, sid |-> 0, arg |-> None,
                        was |-> maps[f.map], result |-> o.result, ret |-> o.ret,
                        streak |-> IF IsSend(o.ret)
                                   THEN [Streak EXCEPT !.sent = Append(@,
                                            <<f.hop_num, Unwrap(Unwrap(o.ret).cell.streamid)>>)]
                                   ELSE Streak]
        /\ maps' = [maps EXCEPT ![f.map] = o.map]
        /\ pass' = Some(Pass(IF o.result = "Pending" THEN p.futures ELSE p.futures \ {f},
                             [p.yielded EXCEPT ![f.hop_num] = IF o.ret # None THEN @ + 1 ELSE @],
                             [p.dequeued EXCEPT ![f.hop_num] = @ + taken]))
        /\ UNCHANGED <<handler, hops, reactor, crates>>

\* The reactor drops the stream of the pass.
DropPass ==
    /\ pass # None
    /\ pass' = None
    /\ hop_call' = [op |-> "drop_pass", streak |-> Streak]
    /\ UNCHANGED <<handler, hops, maps, reactor, crates>>

\* The writer of a stream queues a message on the stream's outbound channel.
StreamSend ==
    \E h \in DOMAIN hops, sid \in StreamIds, msg \in OutboundMsgs :
        LET ent == maps[hops[h].map].ents[sid] IN
        /\ ent.st = "Open" /\ ~ent.rx_closed /\ Len(ent.rx) < RxCap
        /\ Outside("send", h, sid, [ent EXCEPT !.rx = Append(@, msg)])

\* The writer of a stream goes away: the outbound channel ends after what
\* is queued on it.
StreamFinish ==
    \E h \in DOMAIN hops, sid \in StreamIds :
        LET ent == maps[hops[h].map].ents[sid] IN
        /\ ent.st = "Open" /\ ~ent.rx_closed
        /\ Outside("finish", h, sid, [ent EXCEPT !.rx_closed = TRUE])

(***************************************************************************)
(* A circuit of two hops, the streams on them and the passes over them.    *)
(* Each hop's congestion control can send or not; neither uses             *)
(* stream-level SENDMEs.                                                   *)
(***************************************************************************)
SchedInit ==
    /\ HandlerInit
    /\ hops \in {<<CircHop_new(0, 1, c1, FALSE), CircHop_new(1, 2, c2, FALSE)>> :
                    c1 \in BOOLEAN, c2 \in BOOLEAN}
    /\ maps = <<StreamMap_new, StreamMap_new>>
    /\ pass = None
    /\ hop_call = [op |-> "-"]
    /\ ReactorInit
    /\ CratesIdle

SchedNext ==
    \/ BeginStream
    \/ StreamSend
    \/ StreamFinish
    \/ ReadyStreamsIterator
    \/ PollHop
    \/ DropPass

SchedSpec == SchedInit /\ [][SchedNext]_vars

(***************************************************************************)
(* The same circuit with its congestion windows moving, under a fair       *)
(* reactor.  CongestionControl is another file of the crate; what the hop  *)
(* list reads of it is can_send(): sending a cell on a hop may exhaust the *)
(* hop's window, a circuit-level SENDME from the hop may open it again.    *)
(***************************************************************************)
\* The reactor hands a circuit-level SENDME of hop h to the hop's congestion
\* control (CircHop::ccontrol_mut): the window is open afterwards, or, if it
\* was exhausted, it may still be.
NoteSendmeReceived ==
    \E h \in DOMAIN hops :
        /\ \E c \in {hops[h].ccontrol.can_send, TRUE} :
              hops' = [hops EXCEPT ![h].ccontrol.can_send = c]
        /\ hop_call' = [op |-> "note_sendme_received", hop |-> h,
                        could_send |-> hops[h].ccontrol.can_send]
        /\ UNCHANGED <<handler, maps, pass, reactor, crates>>

\* The reactor has sent the cell of the Send that the last poll yielded and
\* tells the congestion control of the cell's hop: the window may be
\* exhausted afterwards.
NoteDataSent ==
    /\ hop_call.op = "poll" /\ IsSend(hop_call.ret)
    /\ \E c \in {hops[hop_call.hop].ccontrol.can_send, FALSE} :
          hops' = [hops EXCEPT ![hop_call.hop].ccontrol.can_send = c]
    /\ hop_call' = [op |-> "note_data_sent", hop |-> hop_call.hop]
    /\ UNCHANGED <<handler, maps, pass, reactor, crates>>

\* The hop numbers of the two-hop circuit.
FairHopNumbers == {0, 1}

\* PollHop, polling the future of hop number n.
PollHopOf(n) == PollHop /\ hop_call'.hop = n + 1

\* A circuit of two hops: the window of the first is open, the window of the
\* second is exhausted.
FairSchedInit ==
    /\ HandlerInit
    /\ hops = <<CircHop_new(0, 1, TRUE, FALSE), CircHop_new(1, 2, FALSE, FALSE)>>
    /\ maps = <<StreamMap_new, StreamMap_new>>
    /\ pass = None
    /\ hop_call = [op |-> "-"]
    /\ ReactorInit
    /\ CratesIdle

FairSchedNext ==
    \/ BeginStream
    \/ StreamSend
    \/ ReadyStreamsIterator
    \/ PollHop
    \/ DropPass
    \/ NoteSendmeReceived
    \/ NoteDataSent

\* ENABLED <<PollHopOf(n)>>_vars, written out: the pass holds the future of
\* hop number n, and polling it is a step (a poll that is Pending again,
\* right after the same Pending poll, changes nothing).
PollEnabled(n) ==
    /\ pass # None
    /\ \E f \in Unwrap(pass).futures :
          /\ f.hop_num = n
          /\ poll_hop(n, maps[f.map]).result = "Pending" =>
                \/ hop_call.op # "poll"
                \/ hop_call.hop # n + 1
                \/ hop_call.result # "Pending"
                \/ hop_call.was # maps[f.map]

\* The reactor's loop: it always creates the next pass and always drops the
\* one it has (weak fairness), and the executor polls the future of a hop
\* that has one again and again (strong fairness of PollHopOf(n), SF_vars,
\* with its ENABLED written out as PollEnabled(n)).
ReactorFairness ==
    /\ WF_vars(ReadyStreamsIterator)
    /\ WF_vars(DropPass)
    /\ \A n \in FairHopNumbers : []<>PollEnabled(n) => []<><<PollHopOf(n)>>_vars

FairSchedSpec == FairSchedInit /\ [][FairSchedNext]_vars /\ ReactorFairness

(***************************************************************************)
(* Properties of the hops.  hop_call is the call made in the last step,    *)
(* hop_call.was the hop's StreamMap before it, `maps` holds the StreamMap  *)
(* after it.                                                               *)
(***************************************************************************)
\* The last step was CircHop::handle_msg.
HopHandled == hop_call.op = "handle_msg"
\* Its msg and cell_counts_toward_windows arguments.
HandledMsg == hop_call.arg[2]
HandledCounts == hop_call.arg[1]
\* The StreamMap of the hop of the last call, as it is now.
MapAfter == maps[hops[hop_call.hop].map]
\* The entry of the stream of the last call, before and after the call.
EntBefore == hop_call.was.ents[hop_call.sid]
EntAfter == MapAfter.ents[hop_call.sid]

Began == hop_call.op = "begin_stream" /\ hop_call.result = "Ok"
BegunId == Unwrap(hop_call.ret)[2]
\* The entries of a StreamMap that are live: open, or closed on one side only.
Live(map) == {s \in StreamIds : map.ents[s] # NoEnt}

\* C13: begin_stream never returns a StreamId that refers to a live entry of
\* the hop's stream map (open, end-sent or end-received); the id it returns
\* had no entry, is the id of the cell it returns, and is the only entry the
\* call changes.
C13_FreshStreamId ==
    Began =>
        /\ BegunId \in StreamIds \ Live(hop_call.was)
        /\ Unwrap(hop_call.ret)[1].streamid = Some(BegunId)
        /\ MapAfter.ents[BegunId].st = "Open"
        /\ \A s \in StreamIds \ {BegunId} : MapAfter.ents[s] = hop_call.was.ents[s]

\* begin_stream returned an id while the hop's other id was still end-sent.
C13_Witness ==
    /\ Began
    /\ \E s \in Live(hop_call.was) : s # BegunId /\ hop_call.was.ents[s] = EndSent

\* The last step was CircHop::close_stream.
Closed == hop_call.op = "close_stream"

\* C18: close_stream returns Ok(Some(cell)) exactly when the stream had not
\* received the peer's END (it was Open) and the behaviour is SendEnd; the
\* cell is for this hop and this id, not early, and carries the END message
\* supplied.  When the peer's END was already received, or the behaviour is
\* SendNothing, it returns Ok(None).
C18_CloseStreamEnd ==
    Closed =>
        /\ (EntBefore.st = "Open" /\ hop_call.arg[1] = "SendEnd") =>
              /\ hop_call.result = "Ok"
              /\ hop_call.ret = Some(StreamCell(hops[hop_call.hop].hop_num, FALSE,
                                                hop_call.sid, hop_call.arg[2]))
        /\ (EntBefore.st = "EndReceived"
                \/ (EntBefore.st = "Open" /\ hop_call.arg = SendNothing)) =>
              hop_call.result = "Ok" /\ hop_call.ret = None
        /\ hop_call.ret # None =>
              EntBefore.st = "Open" /\ hop_call.arg[1] = "SendEnd" /\ hop_call.result = "Ok"

\* close_stream with SendEnd on a stream whose END had been received: Ok(None).
C18_Witness ==
    /\ Closed /\ EntBefore.st = "EndReceived" /\ hop_call.arg[1] = "SendEnd"
    /\ hop_call.result = "Ok" /\ hop_call.ret = None /\ EntAfter = NoEnt

\* C19: handle_msg for a stream id without an entry returns Ok(Some(msg)),
\* msg unmodified, for BEGIN, BEGIN_DIR and RESOLVE, and a protocol error
\* for every other command; the stream map is unchanged either way.
\* handle_msg returns Some(msg) for no other commands than these three.
C19_NoEntry ==
    HopHandled =>
        /\ EntBefore.st = "None" =>
              /\ MapAfter = hop_call.was
              /\ IF HandledMsg.cmd \in RequestCmds
                 THEN hop_call.result = "Ok" /\ hop_call.ret = Some(HandledMsg)
                 ELSE hop_call.result = "CircProto" /\ hop_call.ret = None
        /\ hop_call.ret # None =>
              HandledMsg.cmd \in RequestCmds /\ hop_call.ret = Some(HandledMsg)

\* A RESOLVE for an id without an entry was handed back, while the hop has
\* another stream.
C19_Witness ==
    /\ HopHandled /\ EntBefore.st = "None" /\ HandledMsg.cmd = "RESOLVE"
    /\ hop_call.ret = Some(HandledMsg) /\ Live(MapAfter) # {}

\* C20: handle_msg for a stream in EndSent receiving BEGIN, BEGIN_DIR or
\* RESOLVE removes the entry (the id has no entry afterwards) and returns
\* Ok(Some(msg)).
C20_RequestOnEndSent ==
    (HopHandled /\ EntBefore.st = "EndSent" /\ HandledMsg.cmd \in RequestCmds) =>
        /\ hop_call.result = "Ok" /\ hop_call.ret = Some(HandledMsg)
        /\ EntAfter = NoEnt
        /\ \A s \in StreamIds \ {hop_call.sid} : MapAfter.ents[s] = hop_call.was.ents[s]

\* A BEGIN arrived on an EndSent stream and the entry is gone.
C20_Witness ==
    /\ HopHandled /\ EntBefore.st = "EndSent" /\ HandledMsg.cmd = "BEGIN"
    /\ hop_call.ret = Some(HandledMsg) /\ EntAfter = NoEnt

\* The last step polled the future of a hop.
PolledHop == hop_call.op = "poll"
\* The hop numbers of the circuit; hop number n is hops[n + 1].
HopNumbers == 0..(Len(hops) - 1)
\* The ready streams of the polled hop, before the poll.
ReadyBefore == poll_ready_streams_iter(hop_call.was)

\* C14: in one pass (one stream returned by ready_streams_iterator), every
\* hop yields at most one command and has at most one message taken out of
\* its streams, and a message is only taken for a command that is yielded.
C14_OnePerHopPerPass ==
    pass # None =>
        \A n \in HopNumbers :
            /\ Unwrap(pass).yielded[n] <= 1
            /\ Unwrap(pass).dequeued[n] <= Unwrap(pass).yielded[n]

\* Both hops have yielded their command of the pass, and the first hop, whose
\* message was taken, has another message waiting.
C14_Witness ==
    /\ pass # None
    /\ \A n \in HopNumbers : Unwrap(pass).yielded[n] = 1
    /\ Unwrap(pass).dequeued[0] = 1
    /\ Queued(maps[hops[1].map]) > 0

\* C15: in a pass, a hop whose congestion control reports can_send() = false
\* has no future, yields no command and has nothing taken out of its
\* streams; every hop that can send has a future of its own until that
\* future has yielded the hop's command.
C15_ExhaustedHopSkipped ==
    pass # None =>
        \A n \in HopNumbers :
            LET mine == {f \in Unwrap(pass).futures : f.hop_num = n} IN
            IF hops[n + 1].ccontrol.can_send
            THEN IF Unwrap(pass).yielded[n] = 0
                 THEN mine = {[hop_num |-> n, map |-> hops[n + 1].map]}
                 ELSE mine = {}
            ELSE /\ mine = {}
                 /\ Unwrap(pass).yielded[n] = 0
                 /\ Unwrap(pass).dequeued[n] = 0

\* The first hop cannot send and has a message waiting, which stays; the
\* second hop has yielded a Send in the pass.
C15_Witness ==
    /\ pass # None
    /\ ~hops[1].ccontrol.can_send /\ Queued(maps[hops[1].map]) > 0
    /\ PolledHop /\ hop_call.hop = 2 /\ IsSend(hop_call.ret)
    /\ Unwrap(pass).yielded = [n \in HopNumbers |-> IF n = 1 THEN 1 ELSE 0]

\* The hop number and stream id of the Sends of a run of passes that are for
\* hop number n.
SentOn(n) == SelectSeq(Streak.sent, LAMBDA x : x[1] = n)
\* When the run began, hop number n could send and each of its open streams,
\* at least one, had exactly one message waiting and room to send it.
OnePending(n) ==
    LET start == Streak.start[hops[n + 1].map]
        open == {s \in StreamIds : start.ents[s].st = "Open"} IN
    /\ hops[n + 1].ccontrol.can_send
    /\ open # {}
    /\ \A s \in open : Len(start.ents[s].rx) = 1 /\ OpenStreamEnt_can_send(start.ents[s])
OpenAtStart(n) == {s \in StreamIds : Streak.start[hops[n + 1].map].ents[s].st = "Open"}

\* C16: round-robin within a hop.  In a run of consecutive passes that began
\* with N open streams on a hop, each with exactly one message waiting, the
\* Sends of the hop are for distinct streams, and a poll of the hop yields a
\* Send as long as one of the N streams has not been served: N passes serve
\* all N streams once each.
C16_RoundRobin ==
    hop_call.op \in PassOps =>
        \A n \in HopNumbers :
            OnePending(n) =>
                /\ \A i, j \in DOMAIN SentOn(n) : i # j => SentOn(n)[i] # SentOn(n)[j]
                /\ \A i \in DOMAIN SentOn(n) : SentOn(n)[i][2] \in OpenAtStart(n)
                /\ (PolledHop /\ hop_call.hop = n + 1 /\ ~IsSend(hop_call.ret)) =>
                      {SentOn(n)[i][2] : i \in DOMAIN SentOn(n)} = OpenAtStart(n)

\* Every stream id was open on the first hop with one message waiting, and a
\* run of passes has served them all, one Send each.
C16_Witness ==
    /\ PolledHop /\ hop_call.hop = 1 /\ IsSend(hop_call.ret)
    /\ OnePending(0) /\ OpenAtStart(0) = StreamIds
    /\ Len(SentOn(0)) = MaxStreamId

\* C17: when the ready item of the stream selected for a hop is the end of
\* the stream (no message), the poll yields CloseStream for that hop and
\* stream id, with the default behaviour and the reason StreamTargetClosed,
\* and leaves the StreamMap as it was; when it is a message, the poll takes
\* exactly that message out of that stream and yields Send with that stream
\* id, the hop's place in the list and early = false.  Without a ready
\* stream the poll is Pending.
C17_CloseOrSend ==
    PolledHop =>
        IF ReadyBefore = <<>>
        THEN hop_call.result = "Pending" /\ hop_call.ret = None /\ MapAfter = hop_call.was
        ELSE LET sid == ReadyBefore[1][1]
                 item == ReadyBefore[1][2] IN
             /\ hop_call.result = "Ready"
             /\ IF item = None
                THEN /\ hop_call.ret = Some(CloseStreamCmd(hop_call.hop - 1, sid,
                                            CloseStreamBehavior_default, "StreamTargetClosed"))
                     /\ hop_call.was.ents[sid].rx = <<>>
                     /\ MapAfter = hop_call.was
                ELSE /\ hop_call.ret = Some(CircuitCmd("Send",
                                            StreamCell(hop_call.hop - 1, FALSE, sid,
                                                       Head(hop_call.was.ents[sid].rx))))
                     /\ MapAfter.ents[sid] =
                            [hop_call.was.ents[sid] EXCEPT !.rx = Tail(@)]
                     /\ \A s \in StreamIds \ {sid} : MapAfter.ents[s] = hop_call.was.ents[s]

\* A poll yielded CloseStream for a stream at its end while another stream of
\* the hop has a message waiting, which stays.
C17_Witness ==
    /\ PolledHop /\ hop_call.ret # None /\ Unwrap(hop_call.ret).kind = "CloseStream"
    /\ Queued(MapAfter) > 0 /\ MapAfter = hop_call.was

\* Hop number n can send and one of its streams has a ready item.
Resumable(n) ==
    /\ hops[n + 1].ccontrol.can_send
    /\ poll_ready_streams_iter(maps[hops[n + 1].map]) # <<>>
\* A SENDME has just opened the exhausted window of hop number n.
Reopened(n) ==
    /\ hop_call.op = "note_sendme_received" /\ hop_call.hop = n + 1
    /\ ~hop_call.could_send
    /\ hops[n + 1].ccontrol.can_send
\* The last poll yielded a command for hop number n.
YieldedFor(n) == PolledHop /\ hop_call.hop = n + 1 /\ hop_call.ret # None

\* C31: sending resumes after window exhaustion.  When a SENDME opens the
\* exhausted window of a hop that has a stream with a ready item, a pass
\* created afterwards eventually yields a command for that hop.
C31_SendingResumes ==
    \A n \in FairHopNumbers : (Reopened(n) /\ Resumable(n)) ~> YieldedFor(n)

\* C31 witness: a pass skipped the hop, whose window was exhausted while one
\* of its streams had a message waiting, and yielded a command for the other
\* hop; then a SENDME opened the window of the skipped hop.
C31_Witness ==
    /\ Reopened(1) /\ Resumable(1)
    /\ pass # None
    /\ \A f \in Unwrap(pass).futures : f.hop_num # 1
    /\ Unwrap(pass).yielded[0] = 1

\* Stream s of hop number n has a message waiting and room to send it.
HasReadyMsg(n, s) ==
    LET item == ReadyItem(maps[hops[n + 1].map].ents[s]) IN
    item # None /\ Unwrap(item) # None
\* The last poll yielded a Send for stream s of hop number n.
Selected(n, s) ==
    /\ PolledHop /\ hop_call.hop = n + 1
    /\ IsSend(hop_call.ret)
    /\ Unwrap(hop_call.ret).cell.streamid = Some(s)

\* C32: no starvation within a hop.  Under repeated passes a stream that has
\* a message waiting and room to send it is eventually selected, unless the
\* hop's window is exhausted first; the other streams of the hop may have
\* messages waiting all the time.
C32_NoStarvation ==
    \A n \in FairHopNumbers : \A s \in StreamIds :
        (hops[n + 1].ccontrol.can_send /\ HasReadyMsg(n, s))
            ~> (Selected(n, s) \/ ~hops[n + 1].ccontrol.can_send)

\* C32 witness: a stream was selected while the other stream of its hop,
\* served just before it, had a message waiting again.
C32_Witness ==
    /\ Selected(0, 2)
    /\ hop_call.was.last = 1
    /\ ReadyItem(hop_call.was.ents[1]) = Some(Some("DATA"))
    /\ HasReadyMsg(0, 1)

\* The sink of the stream of the last call was full, or disconnected, when
\* the call was made.
SinkWasFull == EntBefore.sink_open /\ Len(EntBefore.sink) >= SinkCap
SinkWasDisconnected == ~EntBefore.sink_open

\* C21: when handle_msg delivers a message other than SENDME to an Open
\* stream whose sink is full, it returns a protocol error; the message is not
\* queued, and the stream stays Open (its ending message is not recorded as
\* received) even if the message was an END.  Nothing of the StreamMap changes.
C21_FullSinkIsFatal ==
    (HopHandled /\ EntBefore.st = "Open" /\ HandledMsg.cmd # "SENDME" /\ SinkWasFull) =>
        /\ hop_call.result = "CircProto"
        /\ hop_call.ret = None
        /\ EntAfter.st = "Open"
        /\ EntAfter.sink = EntBefore.sink
        /\ MapAfter = hop_call.was

\* An END arrived for an Open stream whose sink was full: a protocol error,
\* and the stream is still Open with the sink as it was.
C21_Witness ==
    /\ HopHandled /\ EntBefore.st = "Open" /\ SinkWasFull
    /\ HandledMsg.cmd = "END"
    /\ hop_call.result = "CircProto"
    /\ EntAfter.st = "Open"
    /\ Len(EntAfter.sink) = SinkCap

\* A message other than SENDME that the stream's command checker accepts
\* arrived for an Open stream whose sink was disconnected.
DeliveredToDisconnected ==
    /\ HopHandled /\ EntBefore.st = "Open" /\ SinkWasDisconnected
    /\ HandledMsg.cmd # "SENDME"
    /\ check_msg(HandledMsg).result = "Ok"

\* C22, as stated: a message delivered to an Open stream whose sink is
\* disconnected returns Ok and adds exactly one to the stream's dropped-cell
\* counter, whatever cell_counts_toward_windows is.  (The counter is looked at
\* while the stream is Open: an END turns the entry into EndReceived.)
C22_DroppedCountsEveryCell ==
    DeliveredToDisconnected =>
        /\ hop_call.result = "Ok"
        /\ EntAfter.st = "Open" => EntAfter.dropped = EntBefore.dropped + 1

\* C22, amended: a message delivered to an Open stream whose sink is
\* disconnected returns Ok(None); the dropped-cell counter goes up by one if
\* the cell counts toward the windows and stays as it is if not.  Nothing else
\* of the entry changes, unless the message ends the stream.
C22_DroppedCountsWindowCells ==
    DeliveredToDisconnected =>
        /\ hop_call.result = "Ok"
        /\ hop_call.ret = None
        /\ IF check_msg(HandledMsg).status = "Closed"
           THEN EntAfter = EndReceived
           ELSE EntAfter = [EntBefore EXCEPT
                               !.dropped = IF HandledCounts THEN @ + 1 ELSE @]

\* A DATA cell that counts toward the windows arrived for a stream whose
\* reader is gone: Ok, and the counter went from 0 to 1.
C22_Witness ==
    /\ DeliveredToDisconnected
    /\ HandledMsg.cmd = "DATA" /\ HandledCounts
    /\ hop_call.result = "Ok"
    /\ EntBefore.dropped = 0 /\ EntAfter.st = "Open" /\ EntAfter.dropped = 1

\* The flavour of flow control the streams of a hop get.
Flavour(hop) == IF hop.ccontrol.uses_stream_sendme THEN "WindowBased" ELSE "XonXoffBased"
\* The last step created a stream (begin_stream or add_ent_with_id returned Ok).
Created ==
    hop_call.op \in {"begin_stream", "add_ent_with_id"} /\ hop_call.result = "Ok"
CreatedId == IF hop_call.op = "begin_stream" THEN BegunId ELSE hop_call.sid

C33_EndSentNeverDelivers ==
    [][LET sid == hop_call'.sid
           msg == hop_call'.arg[2]
           before == hop_call'.was.ents[sid]
           after == maps'[hops[hop_call'.hop].map].ents[sid]
           half == half_stream_handle_msg(msg) IN
       /\ (hop_call'.op = "handle_msg" /\ before = EndSent) =>
             /\ after \in {EndSent, NoEnt}
             /\ msg.cmd \in RequestCmds => after = NoEnt
             /\ msg.cmd \notin RequestCmds =>
                   /\ hop_call'.ret = None
                   /\ hop_call'.result = half.result
                   /\ after = IF half.result = "Ok" /\ half.status = "Closed"
                              THEN NoEnt ELSE EndSent
       /\ (hop_call'.op = "handle_msg" /\ before = NoEnt /\ msg.cmd \notin RequestCmds) =>
             hop_call'.result = "CircProto" /\ after = NoEnt
       /\ \A m \in DOMAIN maps : \A s \in StreamIds :
             (maps[m].ents[s].st # "Open" /\ maps'[m].ents[s].st = "Open") =>
                 /\ hop_call'.op \in {"begin_stream", "add_ent_with_id"}
                 /\ maps[m].ents[s] = NoEnt
    ]_vars

\* C33 witness: close_stream left the entry in EndSent, and a DATA that
\* arrived for it afterwards was absorbed by the half-stream handler.
C33_Witness ==
    /\ HopHandled /\ EntBefore = EndSent
    /\ HandledMsg.cmd = "DATA"
    /\ hop_call.result = "Ok" /\ hop_call.ret = None
    /\ EntAfter = EndSent

(***************************************************************************)
(* The hop list of a circuit as it is built: CircHopList::default(), the   *)
(* hops pushed one by one, each created by CircHop::new with a StreamMap   *)
(* of its own, streams begun and closed on them, and set_stream_map giving *)
(* a hop the StreamMap of another (as when a circuit joins a conflux set). *)
(***************************************************************************)
\* The hop list is explored up to MaxListLen hops.
MaxListLen == 2

\* CircHopList::default()
CircHopList_default == <<>>
\* CircHopList::hop(hopnum)
CircHopList_hop(hoplist, hopnum) ==
    IF hopnum + 1 \in DOMAIN hoplist THEN Some(hoplist[hopnum + 1]) ELSE None
\* CircHopList::len()
CircHopList_len(hoplist) == Len(hoplist)
\* CircHopList::is_empty()
CircHopList_is_empty(hoplist) == hoplist = <<>>

\* Faulty variant: the new hop goes to the front of the list.
CircHopList_push_front(hoplist, new_hop) == <<new_hop>> \o hoplist

\* CircHopList::push(hop)
CircHopList_push(hoplist, new_hop) == Append(hoplist, new_hop)

\* CircHop::n_open_streams(), given the hop's StreamMap.
CircHop_n_open_streams(hop, map) == StreamMap_n_open_streams(map)

\* Faulty variant: the map is replaced without looking at the open streams.
set_stream_map_unchecked(hop, hop_map, map) ==
    [result |-> "Ok", hop |-> [hop EXCEPT !.map = map]]

\* CircHop::set_stream_map(map): the Result and the hop afterwards; hop_map
\* is the hop's StreamMap, map is the one to set.
set_stream_map(hop, hop_map, map) ==
    IF CircHop_n_open_streams(hop, hop_map) # 0
    THEN [result |-> "Bug", hop |-> hop]
    ELSE [result |-> "Ok", hop |-> [hop EXCEPT !.map = map]]

\* The reactor creates a hop and appends it to the list.
Push ==
    /\ CircHopList_len(hops) < MaxListLen
    /\ \E hop_num \in HopNums :
        LET new_hop == CircHop_new(hop_num, Len(maps) + 1, TRUE, FALSE) IN
        /\ hops' = CircHopList_push(hops, new_hop)
        /\ maps' = Append(maps, StreamMap_new)
        /\ hop_call' = [op |-> "push", arg |-> new_hop]
    /\ UNCHANGED <<handler, pass, reactor, crates>>

\* The reactor gives a hop one of the StreamMaps that exist.
SetStreamMap ==
    \E h \in DOMAIN hops, map \in DOMAIN maps :
        LET r == set_stream_map(hops[h], maps[hops[h].map], map) IN
        /\ hops' = [hops EXCEPT ![h] = r.hop]
        /\ hop_call' = [op |-> "set_stream_map", hop |-> h, arg |-> map,
                        hop_was |-> hops[h], was |-> maps[hops[h].map],
                        result |-> r.result, ret |-> None]
        /\ UNCHANGED <<handler, maps, pass, reactor, crates>>

ListInit ==
    /\ HandlerInit
    /\ hops = CircHopList_default
    /\ maps = <<>>
    /\ pass = None
    /\ hop_call = [op |-> "-"]
    /\ ReactorInit
    /\ CratesIdle

ListNext ==
    \/ Push
    \/ SetStreamMap
    \/ BeginStream
    \/ CloseStream

ListSpec == ListInit /\ [][ListNext]_vars

\* The last step was CircHop::set_stream_map.
MapSet == hop_call.op = "set_stream_map"

\* C23: set_stream_map replaces the hop's StreamMap only if the hop's current
\* map has no open stream; otherwise it returns an internal error and the hop
\* keeps its map, with every stream in it.  The map that is set is the one
\* given, and neither the old map nor any other hop is touched.
C23_SetStreamMapChecked ==
    MapSet =>
        /\ IF StreamMap_n_open_streams(hop_call.was) = 0
           THEN /\ hop_call.result = "Ok"
                /\ hops[hop_call.hop] = [hop_call.hop_was EXCEPT !.map = hop_call.arg]
           ELSE /\ hop_call.result = "Bug"
                /\ hops[hop_call.hop] = hop_call.hop_was
                /\ StreamMap_n_open_streams(MapAfter) > 0
        /\ maps[hop_call.hop_was.map] = hop_call.was

\* set_stream_map was refused on a hop with an open stream, asked to take
\* the StreamMap of another hop: the hop still has its own map and the stream.
C23_Witness ==
    /\ MapSet
    /\ hop_call.result = "Bug"
    /\ hop_call.arg # hop_call.hop_was.map
    /\ hops[hop_call.hop].map = hop_call.hop_was.map
    /\ StreamMap_n_open_streams(MapAfter) = 1

\* A hop, apart from the StreamMap it points to (which set_stream_map may
\* change in place).
HopIdentity(h) == IF h = None THEN None ELSE Some([Unwrap(h) EXCEPT !.map = 0])

\* C24: the hop list is append-only.  A push makes len() one larger and the
\* pushed hop is hop(len - 1); nothing else changes len(), so len() is the
\* number of pushes and never decreases; hop(n) for n < len() stays the hop it
\* was, in every step; hop(n) for n >= len() is None.
C24_AppendOnly ==
    [][ /\ CircHopList_len(hops') >= CircHopList_len(hops)
        /\ CircHopList_len(hops') =
              CircHopList_len(hops) + (IF hop_call'.op = "push" THEN 1 ELSE 0)
        /\ hop_call'.op = "push" =>
              CircHopList_hop(hops', CircHopList_len(hops)) = Some(hop_call'.arg)
        /\ \A n \in 0..MaxListLen :
              /\ n < CircHopList_len(hops) =>
                    /\ CircHopList_hop(hops', n) # None
                    /\ HopIdentity(CircHopList_hop(hops', n)) = HopIdentity(CircHopList_hop(hops, n))
              /\ n >= CircHopList_len(hops') => CircHopList_hop(hops', n) = None
      ]_vars

\* Two different hops were pushed, the second just now: hop(0) is the first,
\* hop(1) the second, hop(2) is None.
C24_Witness ==
    /\ hop_call.op = "push"
    /\ CircHopList_len(hops) = 2
    /\ Unwrap(CircHopList_hop(hops, 0)).hop_num = 0
    /\ CircHopList_hop(hops, 1) = Some(hop_call.arg)
    /\ hop_call.arg.hop_num = 1
    /\ CircHopList_hop(hops, 2) = None

(***************************************************************************)
(* Two legs of a conflux tunnel.  Here hops[l] is the last hop of leg l,   *)
(* the only hop of the leg that is kept, and pass[l] is the stream that    *)
(* leg l got from ready_streams_iterator, None if it has none.  Each hop   *)
(* is created with a StreamMap of its own; set_stream_map gives a leg the  *)
(* StreamMap of the other, which the two then share (the join point).      *)
(* The future of a hop locks the StreamMap for the whole of a poll, so a   *)
(* poll is one step and the polls of the two legs interleave.              *)
(***************************************************************************)
Legs == {1, 2}

\* Leg l calls ready_streams_iterator on its hop list.
LegReadyStreamsIterator ==
    \E l \in Legs :
        /\ pass[l] = None
        /\ pass' = [pass EXCEPT ![l] =
                        Some(Pass(ready_streams_iterator(<<hops[l]>>), <<0>>, <<0>>))]
        /\ hop_call' = [op |-> "leg_ready_streams_iterator", leg |-> l]
        /\ UNCHANGED <<handler, hops, maps, reactor, crates>>

\* The stream of leg l is polled and polls its future, which holds the
\* StreamMap the hop had when the stream was created.
LegPollHop ==
    \E l \in Legs :
        /\ pass[l] # None
        /\ \E f \in Unwrap(pass[l]).futures :
            LET o == poll_hop(f.hop_num, maps[f.map])
                p == Unwrap(pass[l])
                taken == Queued(maps[f.map]) - Queued(o.map) IN
            /\ hop_call' = [op |-> "leg_poll", leg |-> l, map |-> f.map,
                            was |-> maps[f.map], result |-> o.result, ret |-> o.ret]
            /\ maps' = [maps EXCEPT ![f.map] = o.map]
            /\ pass' = [pass EXCEPT ![l] =
                            Some(Pass(IF o.result = "Pending" THEN p.futures ELSE p.futures \ {f},
                                      <<p.yielded[1] + (IF o.ret # None THEN 1 ELSE 0)>>,
                                      <<p.dequeued[1] + taken>>))]
            /\ UNCHANGED <<handler, hops, reactor, crates>>

\* Leg l drops its stream.
LegDropPass ==
    \E l \in Legs :
        /\ pass[l] # None
        /\ pass' = [pass EXCEPT ![l] = None]
        /\ hop_call' = [op |-> "leg_drop_pass", leg |-> l]
        /\ UNCHANGED <<handler, hops, maps, reactor, crates>>

JoinInit ==
    /\ HandlerInit
    /\ hops = <<CircHop_new(0, 1, TRUE, FALSE), CircHop_new(0, 2, TRUE, FALSE)>>
    /\ maps = <<StreamMap_new, StreamMap_new>>
    /\ pass = <<None, None>>
    /\ hop_call = [op |-> "-"]
    /\ ReactorInit
    /\ CratesIdle

JoinNext ==
    \/ SetStreamMap
    \/ BeginStream
    \/ StreamSend
    \/ LegReadyStreamsIterator
    \/ LegPollHop
    \/ LegDropPass

JoinSpec == JoinInit /\ [][JoinNext]_vars

\* The two legs share one StreamMap.
Joined == hops[1].map = hops[2].map

\* C36: when the legs share the join point's StreamMap and each runs its own
\* pass over it, in any interleaving, every waiting message of a stream is
\* taken out and emitted as a Send by exactly one leg.  Step by step: a poll
\* of either leg that yields a Send emits the message at the head of that
\* stream's channel and takes exactly that message out of the map; a poll
\* that yields no Send takes nothing out; creating and dropping a pass and
\* setting the map take nothing out; so every message leaves the map once,
\* in the step that emits it.
C36_SharedMapExactlyOnce ==
    [][/\ hop_call'.op = "leg_poll" =>
            LET was == hop_call'.was
                after == maps'[hop_call'.map]
                cmd == hop_call'.ret IN
            /\ IF IsSend(cmd)
               THEN LET sid == Unwrap(Unwrap(cmd).cell.streamid) IN
                    /\ was.ents[sid].st = "Open" /\ was.ents[sid].rx # <<>>
                    /\ Unwrap(cmd).cell.msg = Head(was.ents[sid].rx)
                    /\ after.ents[sid] = [was.ents[sid] EXCEPT !.rx = Tail(@)]
                    /\ \A s \in StreamIds \ {sid} : after.ents[s] = was.ents[s]
               ELSE after.ents = was.ents
            /\ \A m \in DOMAIN maps : m # hop_call'.map => maps'[m] = maps[m]
       /\ hop_call'.op \in {"leg_ready_streams_iterator", "leg_drop_pass", "set_stream_map"} =>
            maps' = maps
      ]_vars

\* C36 witness: the legs share a StreamMap and both have a pass over it; the
\* first leg has yielded the Send of one stream's message, the second leg
\* has just yielded the Send of the other stream's, and nothing is left.
C36_Witness ==
    /\ Joined
    /\ hop_call.op = "leg_poll" /\ hop_call.leg = 2 /\ hop_call.map = hops[1].map
    /\ IsSend(hop_call.ret)
    /\ Queued(hop_call.was) = 1
    /\ pass[1] # None /\ Unwrap(pass[1]).dequeued = <<1>>
    /\ pass[2] # None /\ Unwrap(pass[2]).dequeued = <<1>>
    /\ Queued(maps[hops[1].map]) = 0

(***************************************************************************)
(* Flow control on the streams of two hops, each with its own StreamMap:   *)
(* streams are opened, capacity is taken to send on them, and SENDME and   *)
(* DATA cells arrive.  The first hop uses stream-level SENDMEs.            *)
(***************************************************************************)
FlowMsgs == {msg \in InboundMsgs : msg.cmd \in {"SENDME", "DATA"}}

\* CircHop::handle_msg on a SENDME or a DATA cell.
HandleSendmeOrData ==
    \E h \in DOMAIN hops :
        \E cell_counts_toward_windows \in BOOLEAN, streamid \in StreamIds, msg \in FlowMsgs :
            LET o == CircHop_handle_msg(hops[h], maps[hops[h].map],
                                        cell_counts_toward_windows, streamid, msg) IN
            /\ InHopBounds(o.map)
            /\ Returns("handle_msg", h, streamid, <<cell_counts_toward_windows, msg>>, o)

FlowInit ==
    /\ HandlerInit
    /\ hops \in {<<CircHop_new(0, 1, TRUE, TRUE), CircHop_new(1, 2, TRUE, u)>> : u \in BOOLEAN}
    /\ maps = <<StreamMap_new, StreamMap_new>>
    /\ pass = None
    /\ hop_call = [op |-> "-"]
    /\ ReactorInit
    /\ CratesIdle

FlowNext ==
    \/ BeginStream
    \/ TakeCapacityToSend
    \/ HandleSendmeOrData

FlowSpec == FlowInit /\ [][FlowNext]_vars

\* The step is handle_msg with a SENDME for a stream that is Open.
HandlesSendmeOnOpen ==
    /\ hop_call'.op = "handle_msg"
    /\ hop_call'.arg[2].cmd = "SENDME"
    /\ hop_call'.was.ents[hop_call'.sid].st = "Open"
\* The entry of the stream of that step, before and after it.
SendmeEnt == maps[hops[hop_call'.hop].map].ents[hop_call'.sid]
SendmeEntAfter == maps'[hops[hop_call'.hop].map].ents[hop_call'.sid]
\* The step changes nothing but the entry of its stream.
OnlyItsEntry ==
    /\ hops' = hops
    /\ DOMAIN maps' = DOMAIN maps
    /\ \A m \in DOMAIN maps :
          IF m = hops[hop_call'.hop].map
          THEN /\ maps'[m].last = maps[m].last
               /\ \A s \in StreamIds \ {hop_call'.sid} : maps'[m].ents[s] = maps[m].ents[s]
          ELSE maps'[m] = maps[m]
\* The entry with one SENDME increment more in its send window.
OneIncrement(ent) == [ent EXCEPT !.flow_ctrl = WindowBased(ent.flow_ctrl[2] + 1)]

\* C30, as stated: every SENDME that handle_msg receives on an Open stream
\* adds one SENDME increment to the stream's send window and changes nothing
\* else.
C30_EverySendmeUpdates ==
    [][HandlesSendmeOnOpen =>
        /\ OnlyItsEntry
        /\ SendmeEnt.flow_ctrl[1] = "WindowBased"
        /\ SendmeEntAfter = OneIncrement(SendmeEnt)
    ]_vars

\* C30, amended: a SENDME that handle_msg accepts on an Open stream adds
\* exactly one SENDME increment to the stream's send window; a SENDME it
\* refuses (its body does not decode, or the flow control does not expect
\* it) leaves the window as it was.  Either way nothing else changes: the
\* stream stays Open with its sink untouched, and no other stream and no
\* other hop is affected.
C30_AcceptedSendmeUpdatesOnce ==
    [][HandlesSendmeOnOpen =>
        /\ OnlyItsEntry
        /\ SendmeEntAfter.st = "Open"
        /\ IF hop_call'.result = "Ok"
           THEN /\ SendmeEnt.flow_ctrl[1] = "WindowBased"
                /\ SendmeEntAfter = OneIncrement(SendmeEnt)
                /\ hop_call'.ret = None
           ELSE SendmeEntAfter = SendmeEnt
        /\ ~DecodeSendme(hop_call'.arg[2]) => hop_call'.result = "BytesErr"
    ]_vars

\* A SENDME was accepted on a stream of the first hop while the second hop
\* had an open stream with a DATA cell in its sink: the window of the stream
\* is one increment larger, the sink of the stream is as it was.
C30_Witness ==
    /\ HopHandled /\ HandledMsg.cmd = "SENDME"
    /\ hop_call.hop = 1
    /\ hop_call.result = "Ok"
    /\ EntBefore.st = "Open"
    /\ EntAfter = [EntBefore EXCEPT !.flow_ctrl = WindowBased(EntBefore.flow_ctrl[2] + 1)]
    /\ EntAfter.sink # <<>>
    /\ \E s \in StreamIds :
          /\ maps[2].ents[s].st = "Open"
          /\ maps[2].ents[s].sink # <<>>

(***************************************************************************)
(* The Mutex around each StreamMap.  The reactor's task is the only one    *)
(* that locks them; `task` is where it is inside a call that does: about   *)
(* to lock a StreamMap ("lock") or holding its guard ("locked").  A task   *)
(* that is idle has returned to its caller, which may suspend it.  The     *)
(* owners of the streams run in other tasks and use only their ends of the *)
(* stream channels.                                                        *)
(***************************************************************************)
\* Mutex::lock(): the guard is taken.
lock(mutexes, m) == mutexes \cup {m}

\* Faulty variant: the guard outlives the scope it was taken in.
drop_guard_leaks(mutexes, m) == mutexes

\* The MutexGuard goes out of scope.
drop_guard(mutexes, m) == mutexes \ {m}

\* The StreamMap the task is about to lock, or has locked.
TaskMap == IF task.op = "poll" THEN task.f.map ELSE hops[task.i].map
\* The task inside op, at hop i of the list, having counted sum so far.
Scan(op, i, sum) == [op |-> op, i |-> i, sum |-> sum, at |-> "lock"]

\* The reactor's calls that are made of one step.
IdleBeginStream == task.op = "idle" /\ BeginStream
IdleReadyStreamsIterator == task.op = "idle" /\ ReadyStreamsIterator
IdleDropPass == task.op = "idle" /\ DropPass

\* The stream of the pass polls the future of one hop.
PollBegin ==
    /\ task.op = "idle"
    /\ pass # None
    /\ \E f \in Unwrap(pass).futures :
        /\ task' = [op |-> "poll", f |-> f, at |-> "lock"]
        /\ hop_call' = [op |-> "poll_fn", hop |-> f.hop_num + 1]
    /\ UNCHANGED <<handler, hops, maps, pass, locks, crates>>

\* hop_map.lock() / hop.map.lock(): the task goes on once the Mutex is free.
AcquireLock ==
    /\ task.op # "idle"
    /\ task.at = "lock"
    /\ TaskMap \notin locks
    /\ locks' = lock(locks, TaskMap)
    /\ task' = [task EXCEPT !.at = "locked"]
    /\ hop_call' = [op |-> "lock", held |-> TaskMap]
    /\ UNCHANGED <<handler, hops, maps, pass, crates>>

\* The body of the future under the guard, and its return: Pending or Ready.
PollReturn ==
    /\ task.op = "poll"
    /\ task.at = "locked"
    /\ LET f == task.f
           o == poll_hop(f.hop_num, maps[f.map])
           p == Unwrap(pass)
           taken == Queued(maps[f.map]) - Queued(o.map) IN
        /\ maps' = [maps EXCEPT ![f.map] = o.map]
        /\ pass' = Some(Pass(IF o.result = "Pending" THEN p.futures ELSE p.futures \ {f},
                             [p.yielded EXCEPT ![f.hop_num] = IF o.ret # None THEN @ + 1 ELSE @],
                             [p.dequeued EXCEPT ![f.hop_num] = @ + taken]))
        /\ locks' = drop_guard(locks, f.map)
        /\ task' = Idle
        /\ hop_call' = [op |-> "poll_return", hop |-> f.hop_num + 1, held |-> f.map,
                        result |-> o.result, ret |-> o.ret]
    /\ UNCHANGED <<handler, hops, crates>>

\* CircHopList::has_streams() is called: it starts at the first hop.
HasStreamsBegin ==
    /\ task.op = "idle"
    /\ IF CircHopList_is_empty(hops)
       THEN /\ task' = Idle
            /\ hop_call' = [op |-> "has_streams", ret |-> FALSE]
       ELSE /\ task' = Scan("has_streams", 1, 0)
            /\ hop_call' = [op |-> "call", arg |-> "has_streams"]
    /\ UNCHANGED <<handler, hops, maps, pass, locks, crates>>

\* has_streams looks at the hop whose StreamMap it locked, lets the guard go,
\* and returns true, goes to the next hop, or returns false after the last.
HasStreamsStep ==
    /\ task.op = "has_streams"
    /\ task.at = "locked"
    /\ locks' = drop_guard(locks, TaskMap)
    /\ IF StreamMap_n_open_streams(maps[TaskMap]) > 0
       THEN /\ task' = Idle
            /\ hop_call' = [op |-> "has_streams", ret |-> TRUE, held |-> TaskMap]
       ELSE IF task.i = CircHopList_len(hops)
       THEN /\ task' = Idle
            /\ hop_call' = [op |-> "has_streams", ret |-> FALSE, held |-> TaskMap]
       ELSE /\ task' = Scan("has_streams", task.i + 1, 0)
            /\ hop_call' = [op |-> "next_hop", held |-> TaskMap]
    /\ UNCHANGED <<handler, hops, maps, pass, crates>>

\* CircHopList::n_open_streams() is called.
NOpenStreamsBegin ==
    /\ task.op = "idle"
    /\ IF CircHopList_is_empty(hops)
       THEN /\ task' = Idle
            /\ hop_call' = [op |-> "n_open_streams", ret |-> 0]
       ELSE /\ task' = Scan("n_open_streams", 1, 0)
            /\ hop_call' = [op |-> "call", arg |-> "n_open_streams"]
    /\ UNCHANGED <<handler, hops, maps, pass, locks, crates>>

\* n_open_streams adds the open streams of the hop whose StreamMap it locked
\* (CircHop::n_open_streams), lets the guard go, and goes to the next hop or
\* returns the sum.
NOpenStreamsStep ==
    /\ task.op = "n_open_streams"
    /\ task.at = "locked"
    /\ locks' = drop_guard(locks, TaskMap)
    /\ LET sum == task.sum + CircHop_n_open_streams(hops[task.i], maps[TaskMap]) IN
       IF task.i = CircHopList_len(hops)
       THEN /\ task' = Idle
            /\ hop_call' = [op |-> "n_open_streams", ret |-> sum, held |-> TaskMap]
       ELSE /\ task' = Scan("n_open_streams", task.i + 1, sum)
            /\ hop_call' = [op |-> "next_hop", held |-> TaskMap]
    /\ UNCHANGED <<handler, hops, maps, pass, crates>>

LockNext ==
    \/ IdleBeginStream
    \/ StreamSend
    \/ StreamFinish
    \/ IdleReadyStreamsIterator
    \/ IdleDropPass
    \/ PollBegin
    \/ AcquireLock
    \/ PollReturn
    \/ HasStreamsBegin
    \/ HasStreamsStep
    \/ NOpenStreamsBegin
    \/ NOpenStreamsStep

\* A circuit of two hops that can both send, no Mutex locked.
LockInit ==
    /\ HandlerInit
    /\ hops = <<CircHop_new(0, 1, TRUE, FALSE), CircHop_new(1, 2, TRUE, FALSE)>>
    /\ maps = <<StreamMap_new, StreamMap_new>>
    /\ pass = None
    /\ hop_call = [op |-> "-"]
    /\ ReactorInit
    /\ CratesIdle

LockSpec == LockInit /\ [][LockNext]_vars

\* C25: a StreamMap's lock is never held across a suspension point.  When
\* the task is not inside a poll of a hop's future, has_streams or
\* n_open_streams (so after every return of a poll, Ready or Pending), no
\* lock is held; inside one, at most one lock is held: the one of the hop
\* being looked at.  Whenever the task is about to take a lock, the lock is
\* free, so the task never waits for a lock that is held: no deadlock.
C25_LockNotHeldAcrossReturn ==
    /\ task.op = "idle" => locks = {}
    /\ Cardinality(locks) <= 1
    /\ (task.op # "idle" /\ task.at = "lock") => locks = {}
    /\ (task.op # "idle" /\ task.at = "locked") => locks = {TaskMap}
    /\ hop_call.op \in {"poll_return", "has_streams", "n_open_streams"} => locks = {}

\* The future of the second hop was polled while a pass was alive and
\* returned Pending: the lock it held on the hop's StreamMap is free again,
\* and so is every other.
C25_Witness ==
    /\ hop_call.op = "poll_return"
    /\ hop_call.result = "Pending"
    /\ hop_call.held = 2
    /\ pass # None
    /\ StreamMap_n_open_streams(maps[1]) > 0
    /\ locks = {}

(***************************************************************************)
(* The channel map of the channel manager (tor-chanmgr, mgr/state.rs).     *)
(* MgrState holds the entries of the channels: open ones, each with the    *)
(* channel and the longest time it may stay unused, and ones being built.  *)
(* Of a channel, the map looks at whether it is usable and for how long it *)
(* has been unused (None: it is in use).  Durations are in seconds.        *)
(***************************************************************************)
\* The relays channels lead to.
NumRelays == 2
\* The map is explored up to MaxChannels entries.
MaxChannels == 3
\* Durations are multiples of DurationStep seconds, up to MaxDurationSteps of them.
DurationStep == 90
MaxDurationSteps == 3
\* Pending channels have the unique ids 0..MaxPendingId.
MaxPendingId == 0

RelayIds == 1..NumRelays
Durations == {k * DurationStep : k \in 0..MaxDurationSteps}

\* What expire_channels returns when no channel is waiting to expire:
\* Duration::from_secs(180).
EXPIRE_CHECK_SECS == 180

\* ChannelState::Open(OpenEntry { channel, max_unused_duration })
OpenEntry(ids, usable, unused_duration, max_unused_duration) ==
    [st |-> "Open", ids |-> ids, usable |-> usable, unused_duration |-> unused_duration,
     max_unused_duration |-> max_unused_duration]
\* ChannelState::Building(PendingEntry { ids, pending, unique_id })
PendingEntry(ids, unique_id) == [st |-> "Building", ids |-> ids, unique_id |-> unique_id]

ChannelStates ==
    {OpenEntry(i, u, d, m) :
        i \in RelayIds, u \in BOOLEAN, d \in {None} \cup {Some(x) : x \in Durations},
        m \in Durations}
    \cup {PendingEntry(i, n) : i \in RelayIds, n \in 0..MaxPendingId}

\* Duration::checked_sub
checked_sub(a, b) == IF a >= b THEN Some(a - b) ELSE None
\* std::cmp::min
min(a, b) == IF a <= b THEN a ELSE b

\* Faulty variant: a channel with no time remaining is kept for another round.
ready_to_expire_keeps_at_zero(chan, expire_after) ==
    IF chan.st # "Open" \/ chan.unused_duration = None
    THEN [expire |-> FALSE, expire_after |-> expire_after]
    ELSE LET remaining == checked_sub(chan.max_unused_duration, Unwrap(chan.unused_duration)) IN
         IF remaining = None
         THEN [expire |-> TRUE, expire_after |-> expire_after]
         ELSE [expire |-> FALSE, expire_after |-> min(expire_after, Unwrap(remaining))]

\* ChannelState::ready_to_expire(&self, expire_after): whether the channel is
\* ready to expire, and expire_after as it is left.
ready_to_expire(chan, expire_after) ==
    IF chan.st # "Open"
    THEN [expire |-> FALSE, expire_after |-> expire_after]
    ELSE IF chan.unused_duration = None
    THEN [expire |-> FALSE, expire_after |-> expire_after]
    ELSE LET remaining == checked_sub(chan.max_unused_duration, Unwrap(chan.unused_duration)) IN
         IF remaining = None
         THEN [expire |-> TRUE, expire_after |-> expire_after]
         ELSE IF Unwrap(remaining) = 0
         THEN [expire |-> TRUE, expire_after |-> expire_after]
         ELSE [expire |-> FALSE, expire_after |-> min(expire_after, Unwrap(remaining))]

\* ListByRelayIds::retain(|chan| !chan.ready_to_expire(&mut ret)): the
\* entries are visited one by one; kept holds those retained so far.
RECURSIVE retain_unexpired(_, _, _)
retain_unexpired(todo, kept, expire_after) ==
    IF todo = {}
    THEN [channels |-> kept, ret |-> expire_after]
    ELSE LET chan == CHOOSE c \in todo : TRUE
             r == ready_to_expire(chan, expire_after) IN
         retain_unexpired(todo \ {chan},
                          IF r.expire THEN kept ELSE kept \cup {chan},
                          r.expire_after)

\* MgrState::expire_channels(): the map afterwards and the Duration returned.
expire_channels(chans) == retain_unexpired(chans, {}, EXPIRE_CHECK_SECS)

\* An entry is put into the map.
InsertChannel ==
    /\ Cardinality(channels) < MaxChannels
    /\ \E chan \in ChannelStates \ channels :
        /\ channels' = channels \cup {chan}
        /\ chan_call' = [op |-> "insert"]
    /\ UNCHANGED <<tor_proto, publisher, vanguardmgr, next_id>>

ExpireChannels ==
    LET r == expire_channels(channels) IN
    /\ channels' = r.channels
    /\ chan_call' = [op |-> "expire_channels", was |-> channels, ret |-> r.ret]
    /\ UNCHANGED <<tor_proto, publisher, vanguardmgr, next_id>>

\* No circuit, an unused reactor.
CircuitIdle ==
    /\ hops = <<>>
    /\ maps = <<>>
    /\ pass = None
    /\ hop_call = [op |-> "-"]
    /\ ReactorInit

\* MgrState::new(): an empty map.
ChanInit ==
    /\ HandlerInit
    /\ CircuitIdle
    /\ CratesIdle

ChanNext ==
    \/ InsertChannel
    \/ ExpireChannels

ChanSpec == ChanInit /\ [][ChanNext]_vars

\* The last step was MgrState::expire_channels.
Expired == chan_call.op = "expire_channels"
\* An open channel that is not in use.
Unused(chan) == chan.st = "Open" /\ chan.unused_duration # None
\* The least of a non-empty set of durations.
Least(S) == CHOOSE x \in S : \A y \in S : x <= y

\* C26: expire_channels removes exactly the Open entries whose channel
\* reports an unused duration greater than or equal to the entry's
\* max_unused_duration; entries being built, channels in use and channels
\* with time remaining stay.  It returns the least of 180 seconds and the
\* remaining times of the unused channels that stay.
C26_ExpireChannels ==
    Expired =>
        /\ channels = {chan \in chan_call.was :
                          ~(Unused(chan) /\ Unwrap(chan.unused_duration) >= chan.max_unused_duration)}
        /\ chan_call.ret =
              Least({EXPIRE_CHECK_SECS} \cup
                    {chan.max_unused_duration - Unwrap(chan.unused_duration) :
                        chan \in {c \in channels : Unused(c)}})

\* expire_channels ran on a map of three entries: an open channel unused for
\* as long as it may be went away, one being built and one with 90 seconds
\* remaining stayed, and 90 seconds was returned.
C26_Witness ==
    /\ Expired
    /\ Cardinality(chan_call.was) = 3
    /\ Cardinality(channels) = 2
    /\ \E chan \in chan_call.was \ channels :
          Unwrap(chan.unused_duration) = chan.max_unused_duration
    /\ \E chan \in channels : chan.st = "Building"
    /\ \E chan \in channels : Unused(chan)
    /\ chan_call.ret = DurationStep

(***************************************************************************)
(* Requests for channels.  A target names a relay by its identities, one   *)
(* per identity type (Ed25519, RSA), at least one of them; 0 stands for an *)
(* identity that is not given.  Every method of MgrState takes the lock on *)
(* Inner first and holds it until it returns, and none of them awaits, so  *)
(* the calls of concurrent tasks are steps that interleave.  The `select`  *)
(* module is another file of the crate: an open channel is taken to be     *)
(* allowed when it is usable, a pending one when it is being built for     *)
(* the same identities, and nothing is assumed about which of the eligible *)
(* channels is the best.                                                   *)
(***************************************************************************)
\* The identities of each type are 1..NumIdentities.
NumIdentities == 2
\* NEXT_ID is explored up to MaxNextId.
MaxNextId == 3

Targets == {<<ed, rsa>> : ed \in 0..NumIdentities, rsa \in 0..NumIdentities} \ {<<0, 0>>}

\* HasRelayIds::has_all_relay_ids_from(ids, target): ids has every identity of target.
has_all_relay_ids_from(ids, target) == \A t \in 1..2 : target[t] # 0 => ids[t] = target[t]
\* ListByRelayIds::by_all_ids(target): the entries with all identities of target.
by_all_ids(chans, target) == {e \in chans : has_all_relay_ids_from(e.ids, target)}
\* ListByRelayIds::all_subset(target): the entries whose identities are among target's.
all_subset(chans, target) == {e \in chans : has_all_relay_ids_from(target, e.ids)}
\* ListByRelayIds::all_overlapping(target): the entries with an identity of target.
all_overlapping(chans, target) ==
    {e \in chans : \E t \in 1..2 : target[t] # 0 /\ e.ids[t] = target[t]}
\* select::open_channel_is_allowed and select::pending_channel_maybe_allowed
open_channel_is_allowed(x, target) == x.usable
pending_channel_maybe_allowed(x, target) == x.ids = target
\* target.identities().next(): the first identity of the target, with its type.
any_relay_id(target) == IF target[1] # 0 THEN <<1, target[1]>> ELSE <<2, target[2]>>
\* PendingChannelHandle::new(relay_id, unique_id)
PendingChannelHandle(relay_id, unique_id) == [relay_id |-> relay_id, unique_id |-> unique_id]
\* The handle that the launcher of a pending entry holds.
HandleOf(entry) == PendingChannelHandle(any_relay_id(entry.ids), entry.unique_id)

\* What request_channel returns and leaves: the Result, the value inside Ok,
\* the map and NEXT_ID.
Requested(res, value, chans, id) ==
    [result |-> res, ret |-> value, channels |-> chans, next_id |-> id]

\* Faulty variant: the entries being built are not looked at.
request_channel_ignores_pending(chans, target, add_new_entry_if_not_found, id) ==
    IF ~add_new_entry_if_not_found
    THEN {Requested("Ok", None, chans, id)}
    ELSE {Requested("Ok", Some(<<"NewEntry", PendingChannelHandle(any_relay_id(target), id)>>),
                    chans \cup {PendingEntry(target, id)}, id + 1)}

\* MgrState::request_channel(target, add_new_entry_if_not_found): the set of
\* its possible outcomes (one for each channel choose_best_channel may pick).
request_channel(chans, target, add_new_entry_if_not_found, id) ==
    LET open_channels == {e \in by_all_ids(chans, target) :
                             e.st = "Open" /\ open_channel_is_allowed(e, target)}
        pending_channels == {e \in all_subset(chans, target) :
                                e.st = "Building" /\ pending_channel_maybe_allowed(e, target)}
        eligible == open_channels \cup pending_channels
        conflict == \E e \in all_overlapping(chans, target) :
                        /\ ~has_all_relay_ids_from(e.ids, target)
                        /\ e.st = "Open" /\ e.usable IN
    IF eligible # {}
    THEN {Requested("Ok",
                    IF best.st = "Open" THEN Some(<<"Open", best>>)
                    ELSE Some(<<"Pending", best.unique_id>>),
                    chans, id) : best \in eligible}
    ELSE IF conflict
    THEN {Requested("IdentityConflict", None, chans, id)}
    ELSE IF ~add_new_entry_if_not_found
    THEN {Requested("Ok", None, chans, id)}
    ELSE {Requested("Ok", Some(<<"NewEntry", PendingChannelHandle(any_relay_id(target), id)>>),
                    chans \cup {PendingEntry(target, id)}, id + 1)}

\* Faulty variant: every entry being built with the handle's relay id goes.
remove_pending_by_relay_id(channel_map, handle) ==
    {c \in channel_map :
        ~(c.ids[handle.relay_id[1]] = handle.relay_id[2] /\ c.st = "Building")}

\* remove_pending(channel_map, handle): remove_by_id with the handle's relay
\* id takes out the entries being built that have the handle's unique id.
remove_pending(channel_map, handle) ==
    {c \in channel_map :
        ~(/\ c.ids[handle.relay_id[1]] = handle.relay_id[2]
          /\ c.st = "Building"
          /\ c.unique_id = handle.unique_id)}

RequestChannel ==
    \E target \in Targets, add_new_entry_if_not_found \in BOOLEAN :
        /\ next_id < MaxNextId
        /\ \E r \in request_channel(channels, target, add_new_entry_if_not_found, next_id) :
            /\ channels' = r.channels
            /\ next_id' = r.next_id
            /\ chan_call' = [op |-> "request_channel", target |-> target,
                             add |-> add_new_entry_if_not_found, was |-> channels,
                             result |-> r.result, ret |-> r.ret]
        /\ UNCHANGED <<tor_proto, publisher, vanguardmgr>>

\* The task that launched a build gives up: MgrState::remove_pending_channel(handle).
RemovePendingChannel ==
    \E entry \in {c \in channels : c.st = "Building"} :
        /\ channels' = remove_pending(channels, HandleOf(entry))
        /\ chan_call' = [op |-> "remove_pending_channel", handle |-> HandleOf(entry),
                         was |-> channels]
        /\ UNCHANGED <<tor_proto, publisher, vanguardmgr, next_id>>

\* The build succeeded: MgrState::upgrade_pending_channel_to_open(handle, channel).
\* The channel has an identity of each type: those asked for, and the
\* relay's others.
UpgradePendingChannelToOpen ==
    \E entry \in {c \in channels : c.st = "Building"} :
        \E ids \in {i \in Targets : has_all_relay_ids_from(i, entry.ids)
                                        /\ i[1] # 0 /\ i[2] # 0},
           max_unused_duration \in {d \in Durations : 180 <= d /\ d < 270} :
            /\ channels' = remove_pending(channels, HandleOf(entry))
                                \cup {OpenEntry(ids, TRUE, None, max_unused_duration)}
            /\ chan_call' = [op |-> "upgrade_pending_channel_to_open",
                             handle |-> HandleOf(entry), was |-> channels]
            /\ UNCHANGED <<tor_proto, publisher, vanguardmgr, next_id>>

\* An open channel closes: Channel::is_usable() is false from now on.
ChannelCloses ==
    \E chan \in {c \in channels : c.st = "Open" /\ c.usable} :
        /\ channels' = (channels \ {chan}) \cup {[chan EXCEPT !.usable = FALSE]}
        /\ chan_call' = [op |-> "close"]
        /\ UNCHANGED <<tor_proto, publisher, vanguardmgr, next_id>>

RequestNext ==
    \/ RequestChannel
    \/ RemovePendingChannel
    \/ UpgradePendingChannelToOpen
    \/ ChannelCloses

RequestSpec == ChanInit /\ [][RequestNext]_vars

\* The entries being built for a target.
Building(chans, target) == {c \in chans : c.st = "Building" /\ c.ids = target}
\* An open channel that a request for target may get.
MatchingOpen(chans, target) ==
    \E c \in by_all_ids(chans, target) : c.st = "Open" /\ open_channel_is_allowed(c, target)

\* An open, usable channel has some identity of target, but not all of them.
PartlyOverlapping(chans, target) ==
    \E c \in all_overlapping(chans, target) :
        ~has_all_relay_ids_from(c.ids, target) /\ c.st = "Open" /\ c.usable
\* The last step was request_channel(target, true) for a target without a
\* matching open channel.
RequestedNew ==
    /\ chan_call.op = "request_channel" /\ chan_call.add
    /\ ~MatchingOpen(chan_call.was, chan_call.target)
\* No two entries are being built for the same target, or under the same id.
OneBuildPerTarget ==
    \A c1 \in channels : \A c2 \in channels :
        (c1.st = "Building" /\ c2.st = "Building"
            /\ (c1.ids = c2.ids \/ c1.unique_id = c2.unique_id)) => c1 = c2
\* The last step was remove_pending_channel or upgrade_pending_channel_to_open,
\* and it took out exactly the Building entry that its handle identifies.
RemovedByHandle ==
    chan_call.op \in {"remove_pending_channel", "upgrade_pending_channel_to_open"} =>
        \E c \in chan_call.was :
            /\ c.st = "Building" /\ HandleOf(c) = chan_call.handle
            /\ {e \in channels : e.st = "Building"}
                   = {e \in chan_call.was : e.st = "Building"} \ {c}
            /\ {e \in chan_call.was : e.st = "Open"} \subseteq channels

NumPeriods == 2
\* RevisionCounters are 0..MaxRevision.
MaxRevision == 0

Periods == 1..NumPeriods
RevisionCounters == 0..MaxRevision

\* The sequences without repetition of the members of S.
RECURSIVE Orderings(_)
Orderings(S) ==
    IF S = {} THEN {<<>>}
    ELSE UNION {{<<x>> \o o : o \in Orderings(S \ {x})} : x \in S}
Arrangements(S) == UNION {Orderings(T) : T \in SUBSET S}

\* The NetDirs: hs_time_period(), hs_all_time_periods() (the current time
\* period among them) and, for each time period, hs_dirs_upload().  The
\* NetDirs explored list the time periods from the earliest to the latest,
\* and have the same HsDirs for every time period.
NetDirs ==
    {dir \in [hs_time_period : Periods,
              hs_all_time_periods :
                  {o \in Arrangements(Periods) :
                      \A i \in DOMAIN o, j \in DOMAIN o : i < j => o[i] < o[j]},
              hs_dirs_upload : {[p \in Periods |-> o] : o \in Arrangements(RelayIds)}] :
        \E i \in DOMAIN dir.hs_all_time_periods :
            dir.hs_all_time_periods[i] = dir.hs_time_period}

\* struct HsDirUploadStatus
HsDirUploadStatus(relay_ids, upload_res, revision_counter) ==
    [relay_ids |-> relay_ids, upload_res |-> upload_res, revision_counter |-> revision_counter]

\* The batches an upload task can report: one outcome for each HsDir it
\* uploaded to.
HsDirResults ==
    UNION {{[i \in DOMAIN o |-> HsDirUploadStatus(o[i], f[i].res, f[i].rev)] :
               f \in [DOMAIN o -> [res : {"Ok", "Err"}, rev : RevisionCounters]]} :
           o \in Arrangements(RelayIds)}

\* The first of the places in S, 0 if there is none.
First(S) == IF S = {} THEN 0 ELSE CHOOSE i \in S : \A j \in S : i <= j
\* iter().find(|(relay_ids, _)| relay_ids == ..): the place of the first
\* entry of hs_dirs for the relay, 0 if there is none.
find_relay(hs_dirs, relay_ids) ==
    First({i \in DOMAIN hs_dirs : hs_dirs[i].relay_ids = relay_ids})
\* iter().find(|ctx| ctx.params.time_period() == period): the place of the
\* first context of the time period, 0 if there is none.
find_period(periods, period) ==
    First({i \in DOMAIN periods : periods[i].period = period})

\* The members of all the sequences in seqs, in order (Iterator::flat_map).
RECURSIVE Flatten(_)
Flatten(seqs) == IF seqs = <<>> THEN <<>> ELSE Head(seqs) \o Flatten(Tail(seqs))

\* TimePeriodContext::compute_hsdirs: a status for each HsDir of the time
\* period.  old_hsdirs is an iterator: every find() goes on from where the
\* last one stopped, and leaves the iterator empty when it finds nothing.
RECURSIVE compute_hsdirs(_, _)
compute_hsdirs(hs_dirs, old_hsdirs) ==
    IF hs_dirs = <<>> THEN <<>>
    ELSE LET relay_id == Head(hs_dirs)
             i == find_relay(old_hsdirs, relay_id)
             status == IF i # 0 THEN old_hsdirs[i].status ELSE "Dirty"
             rest == IF i # 0 THEN SubSeq(old_hsdirs, i + 1, Len(old_hsdirs)) ELSE <<>> IN
         <<[relay_ids |-> relay_id, status |-> status]>> \o compute_hsdirs(Tail(hs_dirs), rest)

\* TimePeriodContext::new
TimePeriodContext_new(period, dir, old_hsdirs, old_upload_results) ==
    LET hs_dirs == compute_hsdirs(dir.hs_dirs_upload[period], old_hsdirs)
        StillExists(res) == \E i \in DOMAIN hs_dirs : hs_dirs[i].relay_ids = res.relay_ids IN
    [period |-> period,
     hs_dirs |-> hs_dirs,
     last_successful |-> None,
     upload_results |-> SelectSeq(old_upload_results, StillExists)]

\* Reactor::compute_time_periods
compute_time_periods(dir, old_time_periods) ==
    [k \in DOMAIN dir.hs_all_time_periods |->
        LET period == dir.hs_all_time_periods[k]
            i == find_period(old_time_periods, period) IN
        IF i # 0
        THEN TimePeriodContext_new(period, dir, old_time_periods[i].hs_dirs,
                                   old_time_periods[i].upload_results)
        ELSE TimePeriodContext_new(period, dir, <<>>, <<>>)]

\* The loop of handle_upload_results over results.hsdir_result: the outcomes
\* are looked at one by one; upload_results holds those kept so far.
RECURSIVE note_upload_results(_, _, _)
note_upload_results(period, hsdir_result, upload_results) ==
    IF hsdir_result = <<>>
    THEN [period EXCEPT !.upload_results = upload_results]
    ELSE LET upload_res == Head(hsdir_result)
             i == find_relay(period.hs_dirs, upload_res.relay_ids)
             update_last_successful ==
                 IF period.last_successful = None THEN TRUE
                 ELSE Unwrap(period.last_successful) <= upload_res.revision_counter IN
         IF i = 0
         THEN note_upload_results(period, Tail(hsdir_result), upload_results)
         ELSE IF upload_res.upload_res = "Ok" /\ update_last_successful
         THEN note_upload_results(
                  [period EXCEPT !.last_successful = Some(upload_res.revision_counter),
                                 !.hs_dirs[i].status = "Clean"],
                  Tail(hsdir_result), Append(upload_results, upload_res))
         ELSE note_upload_results(period, Tail(hsdir_result), Append(upload_results, upload_res))

\* Reactor::handle_upload_results: the time periods afterwards.
handle_upload_results(periods, results) ==
    LET i == find_period(periods, results.time_period) IN
    IF i = 0
    THEN periods
    ELSE [periods EXCEPT ![i] = note_upload_results(periods[i], results.hsdir_result, <<>>)]

\* Reactor::handle_upload_results, reupload_timers.push: a timer for the
\* time period, if it is still one of the reactor's.  The timers are kept as
\* the set of their time periods: `when`, 60 to 120 minutes later, is not.
push_reupload_timer(timers, periods, time_period) ==
    IF find_period(periods, time_period) = 0 THEN timers ELSE timers \cup {time_period}

IsOk(res) == res.upload_res = "Ok"
IsErr(res) == res.upload_res = "Err"
\* The upload results of the contexts in ctxs.
UploadResultsOf(ctxs) == Flatten([i \in DOMAIN ctxs |-> ctxs[i].upload_results])

\* Faulty variant: the number of contexts is not looked at.
upload_result_state_any_len(dir, periods) ==
    LET current_period == dir.hs_time_period
        IsSecondary(ctx) == ctx.period # current_period
        i == find_period(periods, current_period)
        current_period_res == IF i # 0 THEN <<periods[i]>> ELSE <<>>
        succeeded_current_tp == SelectSeq(UploadResultsOf(current_period_res), IsOk)
        succeeded_secondary_tp ==
            SelectSeq(UploadResultsOf(SelectSeq(periods, IsSecondary)), IsOk)
        failed == SelectSeq(UploadResultsOf(periods), IsErr)
        err == IF failed # <<>> THEN Some(failed) ELSE None IN
    IF (succeeded_current_tp = <<>> \/ succeeded_secondary_tp = <<>>) /\ failed = <<>>
    THEN [state |-> "Bootstrapping", err |-> err]
    ELSE IF succeeded_current_tp # <<>> /\ succeeded_secondary_tp # <<>> /\ failed = <<>>
    THEN [state |-> "Running", err |-> err]
    ELSE IF succeeded_current_tp # <<>> /\ succeeded_secondary_tp # <<>>
    THEN [state |-> "DegradedReachable", err |-> err]
    ELSE [state |-> "DegradedUnreachable", err |-> err]

\* upload_result_state(netdir, time_periods): the State and the Problem, the
\* failed uploads, if there is one.
upload_result_state(dir, periods) ==
    LET current_period == dir.hs_time_period
        IsSecondary(ctx) == ctx.period # current_period
        i == find_period(periods, current_period)
        current_period_res == IF i # 0 THEN <<periods[i]>> ELSE <<>>
        succeeded_current_tp == SelectSeq(UploadResultsOf(current_period_res), IsOk)
        secondary_tp_res == SelectSeq(periods, IsSecondary)
        succeeded_secondary_tp == SelectSeq(UploadResultsOf(secondary_tp_res), IsOk)
        failed == SelectSeq(UploadResultsOf(periods), IsErr)
        err == IF failed # <<>> THEN Some(failed) ELSE None IN
    IF Len(periods) < 2
    THEN [state |-> "DegradedUnreachable", err |-> err]
    ELSE IF (succeeded_current_tp = <<>> \/ succeeded_secondary_tp = <<>>) /\ failed = <<>>
    THEN [state |-> "Bootstrapping", err |-> err]
    ELSE IF succeeded_current_tp # <<>> /\ succeeded_secondary_tp # <<>> /\ failed = <<>>
    THEN [state |-> "Running", err |-> err]
    ELSE IF succeeded_current_tp # <<>> /\ succeeded_secondary_tp # <<>>
    THEN [state |-> "DegradedReachable", err |-> err]
    ELSE [state |-> "DegradedUnreachable", err |-> err]

\* Reactor::update_publish_status_unless_waiting: what publish_status_tx
\* holds afterwards.
update_publish_status_unless_waiting(status, new_state) ==
    IF status # "AwaitingIpts" THEN new_state ELSE status

\* Reactor::handle_consensus_change(netdir): the netdir is replaced, the
\* time periods are computed anew, an upload is scheduled unless the reactor
\* is waiting for introduction points, and the status of the service is sent
\* as the upload results that remain give it.
HandleConsensusChange ==
    /\ \E dir \in NetDirs :
        LET new_time_periods == compute_time_periods(dir, time_periods) IN
        /\ netdir' = Some(dir)
        /\ time_periods' = new_time_periods
        /\ publish_status' =
              update_publish_status_unless_waiting(publish_status, "UploadScheduled")
        /\ svc_status' = Some(upload_result_state(dir, new_time_periods))
        /\ pub_call' = [op |-> "handle_consensus_change"]
    /\ UNCHANGED <<tor_proto, chanmgr, vanguardmgr, reupload_timers, uploader>>

\* Reactor::run_once, upload_task_complete_rx: an upload task, started when
\* the reactor had a netdir, reports its outcomes; handle_upload_results,
\* then upload_result_to_svc_status.
UploadTaskComplete ==
    /\ netdir # None
    /\ \E time_period \in Periods, hsdir_result \in HsDirResults :
        LET results == [time_period |-> time_period, hsdir_result |-> hsdir_result]
            new_time_periods == handle_upload_results(time_periods, results) IN
        /\ time_periods' = new_time_periods
        /\ reupload_timers' = push_reupload_timer(reupload_timers, time_periods, time_period)
        /\ svc_status' = Some(upload_result_state(Unwrap(netdir), new_time_periods))
        /\ pub_call' = [op |-> "handle_upload_results", time_period |-> time_period]
    /\ UNCHANGED <<tor_proto, chanmgr, vanguardmgr, netdir, publish_status, uploader>>

\* No circuit, no channel, no vanguards.
PubInit ==
    /\ HandlerInit
    /\ CircuitIdle
    /\ ChanMgrIdle
    /\ VanguardMgrIdle
    /\ PublisherIdle

PubNext ==
    \/ HandleConsensusChange
    \/ UploadTaskComplete

PubSpec == PubInit /\ [][PubNext]_vars

\* Whether some upload recorded for one of the time periods in ps went well.
SucceededIn(ps) ==
    \E i \in DOMAIN time_periods :
        /\ time_periods[i].period \in ps
        /\ \E j \in DOMAIN time_periods[i].upload_results :
              time_periods[i].upload_results[j].upload_res = "Ok"
\* Whether some recorded upload failed.
SomeFailed ==
    \E i \in DOMAIN time_periods :
        \E j \in DOMAIN time_periods[i].upload_results :
            time_periods[i].upload_results[j].upload_res = "Err"

\* C27: the state sent after the upload results were looked at is
\* DegradedUnreachable with fewer than two time-period contexts; else, with
\* no failed upload, Bootstrapping if the current or the secondary time
\* periods have no successful upload and Running if both have one; with a
\* failed upload, DegradedReachable if both have a success and
\* DegradedUnreachable otherwise.  The problem is there if and only if an
\* upload failed.
C27_UploadResultState ==
    pub_call.op # "-" =>
        LET current == {Unwrap(netdir).hs_time_period}
            both == SucceededIn(current) /\ SucceededIn(Periods \ current) IN
        /\ Unwrap(svc_status).state =
              IF Len(time_periods) < 2 THEN "DegradedUnreachable"
              ELSE IF ~SomeFailed THEN (IF both THEN "Running" ELSE "Bootstrapping")
              ELSE IF both THEN "DegradedReachable"
              ELSE "DegradedUnreachable"
        /\ (Unwrap(svc_status).err # None) <=> SomeFailed

\* Upload results came in for the secondary time period, one good and one
\* failed, when the current time period had a good one: degraded, reachable.
C27_Witness ==
    /\ pub_call.op = "handle_upload_results"
    /\ pub_call.time_period # Unwrap(netdir).hs_time_period
    /\ Len(time_periods) = 2
    /\ SomeFailed
    /\ Unwrap(svc_status) = [state |-> "DegradedReachable",
                             err |-> Some(SelectSeq(UploadResultsOf(time_periods), IsErr))]

(***************************************************************************)
(* The publisher's main loop (reactor.rs, run and run_once).  The reactor  *)
(* waits in the select of run_once; a step is the event it wakes up for,   *)
(* handled in full, and then the start of the next run_once, up to the     *)
(* select the reactor waits in again.  PublishStatus::RateLimited(until)   *)
(* is publish_status "RateLimited" with rate_lim_until.  The upload tasks  *)
(* run beside the reactor: a task that ends with results hands them to the *)
(* reactor in the same step.                                               *)
(***************************************************************************)
\* const UPLOAD_RATE_LIM_THRESHOLD, in seconds.
UPLOAD_RATE_LIM_THRESHOLD == 60
\* The clock advances by ClockStep seconds, up to MaxNow.
ClockStep == 60
MaxNow == 120
\* The RestrictedDiscoveryKeys of the key_dirs hold 0..MaxClients clients.
MaxClients == 1
\* At most MaxUploadTasks upload tasks are followed at a time.
MaxUploadTasks == 2

\* OnionServiceConfigPublisherView: restricted_discovery.enabled or not.
SvcConfigs == {"open", "restricted"}
ClientLists == 0..MaxClients
\* The HsDir rings of this part have MaxRing HsDirs at most.
MaxRing == 1
\* The NetDirs of this part: every time period, the first of them the
\* current one, and the HsDirs in the order of their ids, the first of them
\* at least.
UploadNetDirs ==
    {dir \in NetDirs :
        /\ Len(dir.hs_all_time_periods) = NumPeriods
        /\ dir.hs_time_period = dir.hs_all_time_periods[1]
        /\ \E n \in 1..MaxRing : dir.hs_dirs_upload[dir.hs_time_period] = [i \in 1..n |-> i]}

\* The reactor as the event finds it; upload_call is filled by upload_all.
Reactor ==
    [netdir |-> netdir, time_periods |-> time_periods,
     publish_status |-> publish_status, rate_lim_until |-> rate_lim_until,
     status_rx |-> status_rx, svc_status |-> svc_status,
     reupload_timers |-> reupload_timers, svc_config |-> svc_config,
     authorized_clients |-> authorized_clients, last_uploaded |-> last_uploaded,
     upload_tasks |-> upload_tasks, upload_call |-> None]

\* Reactor::update_publish_status: Bootstrapping goes to status_tx unless the
\* new state is Idle, and the new state to publish_status_tx, which wakes
\* publish_status_rx.
update_publish_status(r, new_state) ==
    [r EXCEPT !.svc_status = IF new_state = "Idle" THEN @
                             ELSE Some([state |-> "Bootstrapping", err |-> None]),
              !.publish_status = new_state,
              !.status_rx = TRUE]

\* Reactor::update_publish_status_unless_waiting, on the whole reactor.
update_unless_waiting(r, new_state) ==
    IF r.publish_status # "AwaitingIpts" THEN update_publish_status(r, new_state) ELSE r

\* Reactor::update_publish_status_unless_rate_lim
update_publish_status_unless_rate_lim(r, new_state) ==
    IF r.publish_status # "RateLimited" THEN update_publish_status(r, new_state) ELSE r

\* Reactor::start_rate_limit(delay) at the time now_.
start_rate_limit(r, now_, delay) ==
    IF r.publish_status # "RateLimited"
    THEN [update_publish_status(r, "RateLimited") EXCEPT !.rate_lim_until = now_ + delay]
    ELSE r

\* Reactor::expire_rate_limit
expire_rate_limit(r) == update_publish_status(r, "UploadScheduled")

\* TimePeriodContext::mark_all_dirty
TimePeriodContext_mark_all_dirty(ctx) ==
    [ctx EXCEPT !.hs_dirs = [j \in DOMAIN @ |-> [@[j] EXCEPT !.status = "Dirty"]]]

\* Reactor::mark_all_dirty
mark_all_dirty(r) ==
    [r EXCEPT !.time_periods =
        [i \in DOMAIN @ |-> TimePeriodContext_mark_all_dirty(@[i])]]

\* Reactor::mark_dirty(period): whether the period is still relevant.
mark_dirty_found(r, period) == find_period(r.time_periods, period) # 0
\* Reactor::mark_dirty(period): the reactor afterwards.
mark_dirty(r, period) ==
    LET i == find_period(r.time_periods, period) IN
    IF i = 0 THEN r
    ELSE [r EXCEPT !.time_periods[i] = TimePeriodContext_mark_all_dirty(@)]

\* upload_all, the filter_map over period_ctx.hs_dirs: the HsDirs whose
\* descriptor is Dirty, in the order of the ring.
RECURSIVE dirty_hs_dirs(_)
dirty_hs_dirs(hs_dirs) ==
    IF hs_dirs = <<>> THEN <<>>
    ELSE (IF Head(hs_dirs).status = "Dirty" THEN <<Head(hs_dirs).relay_ids>> ELSE <<>>)
         \o dirty_hs_dirs(Tail(hs_dirs))

\* upload_all, the loop over inner.time_periods: the tasks spawned, one
\* [time_period, hs_dirs] each.  The loop ends, with Ok(()), at the first
\* time period with no Dirty HsDir.
RECURSIVE spawn_upload_tasks(_)
spawn_upload_tasks(periods) ==
    IF periods = <<>> THEN <<>>
    ELSE LET hs_dirs == dirty_hs_dirs(Head(periods).hs_dirs) IN
         IF hs_dirs = <<>> THEN <<>>
         ELSE <<[time_period |-> Head(periods).period, hs_dirs |-> hs_dirs]>>
              \o spawn_upload_tasks(Tail(periods))

\* Reactor::authorized_clients: an error if restricted discovery is on and
\* there is no client.
authorized_clients_is_err(r) ==
    r.authorized_clients # None /\ Unwrap(r.authorized_clients) = 0

SeqRange(s) == {s[i] : i \in DOMAIN s}

\* Reactor::upload_all at the time now_.  upload_call keeps the status it
\* found, how it ended, and the tasks it spawned.
upload_all(r, now_) ==
    LET UploadCall(outcome, spawned) ==
            Some([status |-> r.publish_status, outcome |-> outcome, spawned |-> spawned]) IN
    IF authorized_clients_is_err(r)
    THEN [r EXCEPT !.svc_status =
                       Some([state |-> "Broken",
                             err |-> Some(<<"RestrictedDiscoveryNoClients">>)]),
                   !.upload_call = UploadCall("NoClients", <<>>)]
    ELSE IF /\ r.last_uploaded # None
            /\ now_ - Unwrap(r.last_uploaded) < UPLOAD_RATE_LIM_THRESHOLD
    THEN [start_rate_limit(r, now_, UPLOAD_RATE_LIM_THRESHOLD)
             EXCEPT !.upload_call = UploadCall("RateLimited", <<>>)]
    ELSE LET spawned == spawn_upload_tasks(r.time_periods) IN
         [r EXCEPT !.last_uploaded = Some(now_),
                   !.upload_tasks = @ \cup SeqRange(spawned),
                   !.upload_call = UploadCall("Spawned", spawned)]

\* run_once, `for period in reupload_periods`: the time periods of the
\* timers that elapsed, one after the other.
RECURSIVE schedule_reuploads(_, _)
schedule_reuploads(r, reupload_periods) ==
    IF reupload_periods = {} THEN r
    ELSE LET period == CHOOSE p \in reupload_periods : \A q \in reupload_periods : p <= q
             marked == mark_dirty(r, period)
             next == IF mark_dirty_found(r, period)
                     THEN update_publish_status_unless_rate_lim(marked, "UploadScheduled")
                     ELSE marked IN
         schedule_reuploads(next, reupload_periods \ {period})

\* run_once, from its start to the select, at the time now_: the rate limit
\* is lifted if its time is past, and the timers that elapsed are taken off
\* reupload_timers and their time periods marked.
run_once_start(r, now_, elapsed) ==
    LET r1 == IF r.publish_status = "RateLimited" /\ now_ > r.rate_lim_until
              THEN expire_rate_limit(r) ELSE r
        r2 == [r1 EXCEPT !.reupload_timers = @ \ elapsed] IN
    schedule_reuploads(r2, elapsed)

\* Reactor::note_ipt_change, given what the ipt_watcher shows.
note_ipt_change(has_ipts) == IF has_ipts THEN "UploadScheduled" ELSE "AwaitingIpts"

\* Reactor::handle_ipt_change(Some(Ok(())))
handle_ipt_change(r, has_ipts) ==
    update_publish_status_unless_rate_lim(mark_all_dirty(r), note_ipt_change(has_ipts))

\* Reactor::handle_consensus_change(netdir), on the reactor.
handle_consensus_change(r, dir) ==
    LET new_time_periods == compute_time_periods(dir, r.time_periods)
        r1 == [r EXCEPT !.netdir = Some(dir), !.time_periods = new_time_periods]
        r2 == update_unless_waiting(r1, "UploadScheduled") IN
    [r2 EXCEPT !.svc_status = Some(upload_result_state(dir, new_time_periods))]

\* Reactor::read_authorized_clients: None unless restricted discovery is
\* on, else the keys the key_dirs hold.
read_authorized_clients(cfg, keys) == IF cfg = "restricted" THEN Some(keys) ELSE None

\* Reactor::handle_svc_config_change(config); keys is what the key_dirs hold.
handle_svc_config_change(r, new_config, keys) ==
    IF r.svc_config = new_config THEN r
    ELSE LET r1 == [r EXCEPT !.svc_config = new_config,
                             !.authorized_clients = read_authorized_clients(new_config, keys)] IN
         update_unless_waiting(mark_all_dirty(r1), "UploadScheduled")

\* Reactor::handle_key_dirs_change(event); keys is what the key_dirs hold.
handle_key_dirs_change(r, keys) ==
    LET clients == read_authorized_clients(r.svc_config, keys) IN
    IF clients = r.authorized_clients THEN r
    ELSE update_unless_waiting(mark_all_dirty([r EXCEPT !.authorized_clients = clients]),
                               "UploadScheduled")

\* run_once, the publish_status_rx branch: the value is taken; an upload is
\* run if it is UploadScheduled.
publish_status_changed(r, now_) ==
    LET should_upload == r.publish_status
        taken == [r EXCEPT !.status_rx = FALSE] IN
    IF should_upload = "UploadScheduled"
    THEN upload_all(update_unless_waiting(taken, "Idle"), now_)
    ELSE taken

\* run_once, the update_from_pow_manager_rx branch.
update_tp_pow_seed(r, time_period, now_) == upload_all(mark_dirty(r, time_period), now_)

\* run_once, the upload_task_complete_rx branch, on the reactor.
upload_task_complete(r, results) ==
    LET new_time_periods == handle_upload_results(r.time_periods, results) IN
    [r EXCEPT !.time_periods = new_time_periods,
              !.reupload_timers =
                  push_reupload_timer(@, r.time_periods, results.time_period),
              !.svc_status = Some(upload_result_state(Unwrap(r.netdir), new_time_periods))]

\* The reactor is left as r: it waits in the select of run_once.
Waits(r, op) ==
    /\ netdir' = r.netdir
    /\ time_periods' = r.time_periods
    /\ publish_status' = r.publish_status
    /\ rate_lim_until' = r.rate_lim_until
    /\ status_rx' = r.status_rx
    /\ svc_status' = r.svc_status
    /\ reupload_timers' = r.reupload_timers
    /\ svc_config' = r.svc_config
    /\ authorized_clients' = r.authorized_clients
    /\ last_uploaded' = r.last_uploaded
    /\ upload_tasks' = r.upload_tasks
    /\ upload_call' = r.upload_call
    /\ pub_call' = op
    /\ UNCHANGED <<tor_proto, chanmgr, vanguardmgr, pub_now>>
\* The event is handled, leaving r; the next run_once starts, no timer
\* having elapsed, and the reactor waits in its select.
EventHandled(r, op) == Waits(run_once_start(r, pub_now, {}), op)

\* Whether the tasks of upload_all can still be followed.
CanFollowTasks == Cardinality(upload_tasks) + NumPeriods <= MaxUploadTasks

\* Time passes.
ClockAdvances ==
    /\ pub_now + ClockStep <= MaxNow
    /\ pub_now' = pub_now + ClockStep
    /\ UNCHANGED <<tor_proto, chanmgr, vanguardmgr, netdir, time_periods, publish_status,
                   svc_status, pub_call, reupload_timers, ipts, svc_config,
                   authorized_clients, last_uploaded, rate_lim_until, status_rx,
                   upload_tasks, upload_call>>

\* run_once, the ipt_watcher branch: the IPT manager has changed the IptSet,
\* which has ipts or has none; handle_ipt_change.
IptChange ==
    \E has_ipts \in BOOLEAN :
        /\ ipts' = has_ipts
        /\ EventHandled(handle_ipt_change(Reactor, has_ipts), [op |-> "handle_ipt_change"])

\* run_once, the netdir_events branch with DirEvent::NewConsensus.
ConsensusChanges ==
    /\ \E dir \in UploadNetDirs :
          EventHandled(handle_consensus_change(Reactor, dir), [op |-> "handle_consensus_change"])
    /\ UNCHANGED ipts

\* run_once, the config_rx branch.
SvcConfigChange ==
    /\ \E new_config \in SvcConfigs, keys \in ClientLists :
          EventHandled(handle_svc_config_change(Reactor, new_config, keys),
                  [op |-> "handle_svc_config_change"])
    /\ UNCHANGED ipts

\* run_once, the key_dirs_rx branch.
KeyDirsChange ==
    /\ \E keys \in ClientLists :
          EventHandled(handle_key_dirs_change(Reactor, keys), [op |-> "handle_key_dirs_change"])
    /\ UNCHANGED ipts

\* run_once, the publish_status_rx branch.
PublishStatusChanged ==
    /\ status_rx
    /\ publish_status = "UploadScheduled" => CanFollowTasks
    /\ EventHandled(publish_status_changed(Reactor, pub_now), [op |-> "publish_status_changed"])
    /\ UNCHANGED ipts

\* run_once, the update_from_pow_manager_rx branch: the PoW manager has a
\* new seed for a time period.
UpdateTpPowSeed ==
    /\ CanFollowTasks
    /\ \E time_period \in Periods :
          EventHandled(update_tp_pow_seed(Reactor, time_period, pub_now),
                  [op |-> "update_tp_pow_seed"])
    /\ UNCHANGED ipts

\* run_once, the upload_rate_lim.wait_for_earliest branch: the reactor was
\* rate-limited when run_once started, and the time has come.
RateLimitExpires ==
    /\ publish_status = "RateLimited"
    /\ pub_now >= rate_lim_until
    /\ EventHandled(expire_rate_limit(Reactor), [op |-> "expire_rate_limit"])
    /\ UNCHANGED ipts

\* run_once, the reupload_tracking.wait_for_earliest branch: some timers
\* have elapsed; the next run_once takes them off and schedules the reuploads.
ReuploadTimersElapse ==
    /\ \E elapsed \in SUBSET reupload_timers :
          /\ elapsed # {}
          /\ Waits(run_once_start(Reactor, pub_now, elapsed),
                   [op |-> "reupload"])
    /\ UNCHANGED ipts

\* An upload task ends (upload_for_time_period).  With no introduction
\* points it gives up and reports nothing.  Else it reports an outcome for
\* each of its HsDirs, and the reactor wakes in the upload_task_complete_rx
\* branch of run_once.
UploadTaskEnds ==
    /\ \E upload_task \in upload_tasks :
          LET left == [Reactor EXCEPT !.upload_tasks = @ \ {upload_task}]
              hs_dirs == upload_task.hs_dirs IN
          IF ~ipts
          THEN Waits([left EXCEPT !.upload_call = upload_call], pub_call)
          ELSE \E f \in [DOMAIN hs_dirs -> [res : {"Ok", "Err"}, rev : RevisionCounters]] :
                  LET results ==
                        [time_period |-> upload_task.time_period,
                         hsdir_result |->
                             [i \in DOMAIN hs_dirs |->
                                 HsDirUploadStatus(hs_dirs[i], f[i].res, f[i].rev)]] IN
                  EventHandled(upload_task_complete(left, results),
                          [op |-> "handle_upload_results",
                           time_period |-> upload_task.time_period])
    /\ UNCHANGED ipts

\* Reactor::run, up to the select of the first run_once: the netdir has
\* come, the contexts of its time periods are new; nothing else has happened.
UploadInit ==
    /\ HandlerInit
    /\ CircuitIdle
    /\ ChanMgrIdle
    /\ VanguardMgrIdle
    /\ \E dir \in UploadNetDirs :
          /\ netdir = Some(dir)
          /\ time_periods = compute_time_periods(dir, <<>>)
    /\ publish_status = "AwaitingIpts"
    /\ svc_status = None
    /\ pub_call = [op |-> "-"]
    /\ reupload_timers = {}
    /\ UploaderIdle

UploadNext ==
    \/ ClockAdvances
    \/ IptChange
    \/ ConsensusChanges
    \/ SvcConfigChange
    \/ KeyDirsChange
    \/ PublishStatusChanged
    \/ UpdateTpPowSeed
    \/ RateLimitExpires
    \/ ReuploadTimersElapse
    \/ UploadTaskEnds

UploadSpec == UploadInit /\ [][UploadNext]_vars

\* The reactor of a service with no PoW manager: update_from_pow_manager_rx
\* never has a value.
PublishNext ==
    \/ ClockAdvances
    \/ IptChange
    \/ ConsensusChanges
    \/ SvcConfigChange
    \/ KeyDirsChange
    \/ PublishStatusChanged
    \/ RateLimitExpires
    \/ ReuploadTimersElapse
    \/ UploadTaskEnds

PublishSpec == UploadInit /\ [][PublishNext]_vars

\* C38: once the PublishStatus is RateLimited(until), it stays RateLimited
\* until the rate limit expires, when it becomes UploadScheduled: no event
\* of the reactor takes it out of RateLimited before the time `until`.
C38_RateLimitedUntilExpiry ==
    [][(publish_status = "RateLimited" /\ publish_status' # "RateLimited")
          => (pub_now >= rate_lim_until /\ publish_status' = "UploadScheduled")]_vars

\* C39: upload_all is not run while the PublishStatus is AwaitingIpts: the
\* event the reactor handled last did not run it with that status.
C39_NoUploadWhileAwaitingIpts ==
    upload_call # None => Unwrap(upload_call).status # "AwaitingIpts"

\* The time periods with a Dirty HsDir, in order, each with its Dirty HsDirs.
RECURSIVE DirtyPeriods(_)
DirtyPeriods(periods) ==
    IF periods = <<>> THEN <<>>
    ELSE (IF \E j \in DOMAIN Head(periods).hs_dirs : Head(periods).hs_dirs[j].status = "Dirty"
          THEN <<[time_period |-> Head(periods).period,
                  hs_dirs |-> dirty_hs_dirs(Head(periods).hs_dirs)]>>
          ELSE <<>>)
         \o DirtyPeriods(Tail(periods))

\* C40: when upload_all runs and is not rate-limited, it spawns one task for
\* each time period with a Dirty HsDir, for the Dirty HsDirs of that time
\* period, and none for a time period whose HsDirs are all Clean, which does
\* not keep the other time periods from their tasks.
C40_TaskForEachDirtyPeriod ==
    (upload_call # None /\ Unwrap(upload_call).outcome = "Spawned")
        => Unwrap(upload_call).spawned = DirtyPeriods(time_periods)

(***************************************************************************)
(* The vanguard manager (tor-guardmgr, vanguards.rs).  The VanguardSets    *)
(* are the relays of the L2 and of the L3 pool.  The maintenance task      *)
(* rotates the vanguards that have expired, and updates the sets when a    *)
(* new consensus arrives and when the configuration changes.  The time a   *)
(* vanguard expires at is not kept: which vanguards have expired at the    *)
(* time the task looks is an input of the step.                            *)
(***************************************************************************)
\* params.l2_pool_size() and params.l3_pool_size().
VanguardPoolSize == 1

VanguardModes == {"Disabled", "Lite", "Full"}
\* VanguardSets::default()
VanguardSets_default == [l2_vanguards |-> {}, l3_vanguards |-> {}]
\* The VanguardSets a state file can hold.
AllVanguardSets ==
    {sets \in [l2_vanguards : SUBSET RelayIds, l3_vanguards : SUBSET RelayIds] :
        /\ Cardinality(sets.l2_vanguards) <= VanguardPoolSize
        /\ Cardinality(sets.l3_vanguards) <= VanguardPoolSize}

\* VanguardSets::remove_expired(now): expired holds the relays whose time
\* has come at `now`.
remove_expired(sets, expired) ==
    [l2_vanguards |-> sets.l2_vanguards \ expired,
     l3_vanguards |-> sets.l3_vanguards \ expired]

\* VanguardSets::remove_unlisted(netdir): dir holds the relays the NetDir lists.
remove_unlisted(sets, dir) ==
    [l2_vanguards |-> sets.l2_vanguards \cap dir,
     l3_vanguards |-> sets.l3_vanguards \cap dir]

\* What a pool can be after it was replenished from the relays of dir: relays
\* that are not in it are added, as many as the pool lacks, if there are
\* that many.
replenish_set(vanguards, dir, target) ==
    LET deficit == IF Cardinality(vanguards) < target
                   THEN target - Cardinality(vanguards) ELSE 0
        available == dir \ vanguards
        count == min(deficit, Cardinality(available)) IN
    {vanguards \cup picked : picked \in {c \in SUBSET available : Cardinality(c) = count}}

\* VanguardSets::replenish_vanguards(runtime, netdir, params, mode): what
\* the sets can be afterwards.  The L3 pool is only populated in Full mode.
replenish_vanguards(sets, dir, vg_mode) ==
    {[l2_vanguards |-> l2, l3_vanguards |-> l3] :
        l2 \in replenish_set(sets.l2_vanguards, dir, VanguardPoolSize),
        l3 \in IF vg_mode = "Full"
               THEN replenish_set(sets.l3_vanguards, dir, VanguardPoolSize)
               ELSE {sets.l3_vanguards}}

\* Faulty variant: the sets are stored whatever the mode.
flush_to_storage_in_any_mode(vg_mode, sets, stored) == Some(sets)

\* Inner::flush_to_storage(storage): what the state file holds afterwards.
flush_to_storage(vg_mode, sets, stored) ==
    IF vg_mode \in {"Lite", "Disabled"} THEN stored ELSE Some(sets)

\* Inner::update_vanguard_sets(runtime, storage, netdir): the sets are left
\* as new_sets, one of the outcomes of replenishing what is still listed,
\* and flushed.
update_vanguard_sets(sets, dir) ==
    \E new_sets \in replenish_vanguards(remove_unlisted(sets, dir), dir, mode) :
        /\ vanguard_sets' = new_sets
        /\ storage' = flush_to_storage(mode, new_sets, storage)

\* The state of the manager before a step.
VgWas(op) == [op |-> op, mode |-> mode, vanguard_sets |-> vanguard_sets, storage |-> storage]

\* VanguardMgr::reconfigure(config)
Reconfigure ==
    /\ \E new_mode \in VanguardModes :
        IF new_mode # mode
        THEN /\ mode' = new_mode
             /\ config_rx' = TRUE
        ELSE UNCHANGED <<mode, config_rx>>
    /\ vg_call' = VgWas("reconfigure")
    /\ UNCHANGED <<tor_proto, chanmgr, publisher, vanguard_sets, storage, vg_netdir>>

\* VanguardMgr::rotate_expired(netdir_provider, now), at the start of run_once.
RotateExpired ==
    /\ \E expired \in SUBSET RelayIds :
        LET sets == remove_expired(vanguard_sets, expired) IN
        IF vg_netdir # None
        THEN update_vanguard_sets(sets, Unwrap(vg_netdir))
        ELSE /\ vanguard_sets' = sets
             /\ UNCHANGED storage
    /\ vg_call' = VgWas("rotate_expired")
    /\ UNCHANGED <<tor_proto, chanmgr, publisher, mode, vg_netdir, config_rx>>

\* run_once, netdir_events: the provider has a new consensus, listing the
\* relays of dir, and the task has been told.
NewConsensus ==
    /\ \E dir \in SUBSET RelayIds :
        /\ vg_netdir' = Some(dir)
        /\ update_vanguard_sets(vanguard_sets, dir)
    /\ vg_call' = VgWas("new_consensus")
    /\ UNCHANGED <<tor_proto, chanmgr, publisher, mode, config_rx>>

\* run_once, config_rx: the task sees that the configuration has changed.
ConfigChanged ==
    /\ config_rx
    /\ config_rx' = FALSE
    /\ IF vg_netdir # None
       THEN update_vanguard_sets(vanguard_sets, Unwrap(vg_netdir))
       ELSE UNCHANGED <<vanguard_sets, storage>>
    /\ vg_call' = VgWas("config_changed")
    /\ UNCHANGED <<tor_proto, chanmgr, publisher, mode, vg_netdir>>

\* VanguardMgr::new(config, runtime, state_mgr, has_onion_svc): the mode of
\* the configuration; the sets of the state file less those that have
\* expired, the default sets if there is no file.
VanguardInit ==
    /\ HandlerInit
    /\ CircuitIdle
    /\ ChanMgrIdle
    /\ PublisherIdle
    /\ mode \in VanguardModes
    /\ storage \in {None} \cup {Some(sets) : sets \in AllVanguardSets}
    /\ vanguard_sets \in
          IF storage = None THEN {VanguardSets_default}
          ELSE {remove_expired(Unwrap(storage), expired) : expired \in SUBSET RelayIds}
    /\ vg_netdir = None
    /\ config_rx = FALSE
    /\ vg_call = [op |-> "-"]

VanguardNext ==
    \/ Reconfigure
    \/ RotateExpired
    \/ NewConsensus
    \/ ConfigChanged

VanguardSpec == VanguardInit /\ [][VanguardNext]_vars

\* The last step changed the vanguard sets.
SetsChanged == vg_call.op # "-" /\ vanguard_sets # vg_call.vanguard_sets

\* C28: a step made while the mode is Lite or Disabled leaves the state file
\* as it was, whatever it does to the vanguard sets, and so does
\* reconfigure; when the state file is written, the mode is Full and what is
\* written are the vanguard sets.
C28_StoredOnlyInFullMode ==
    vg_call.op # "-" =>
        /\ vg_call.mode \in {"Lite", "Disabled"} => storage = vg_call.storage
        /\ vg_call.op = "reconfigure" => storage = vg_call.storage
        /\ storage # vg_call.storage =>
              /\ vg_call.mode = "Full"
              /\ mode = "Full"
              /\ storage = Some(vanguard_sets)

\* In Lite mode a new consensus that no longer lists a vanguard changed the
\* sets; the state file still holds the sets as they were, L3 vanguards and
\* all.
C28_Witness ==
    /\ vg_call.op = "new_consensus"
    /\ mode = "Lite"
    /\ SetsChanged
    /\ storage = vg_call.storage
    /\ storage = Some(vg_call.vanguard_sets)
    /\ vg_call.vanguard_sets.l3_vanguards # {}

====
